---- MODULE Spec2Model ----
(***************************************************************************)
(* Governed RAG pipeline of the Orkio backend: topic contract, mode gate,  *)
(* retrieval ranking (linear scan and pgvector), chat turns and document   *)
(* ingestion, modelled from src/src/services/rag.ts, src/src/utils/index.ts*)
(* and the routes that call them.                                          *)
(*                                                                         *)
(* Strings are sequences of one-character strings.  Similarity scores are  *)
(* integers in hundredths (0.3 is 30).  Costs are integers in cents.       *)
(***************************************************************************)
EXTENDS Integers, Sequences, FiniteSets, TLC

(* ------------------------------ bounds -------------------------------- *)
MaxMsgLen == 2
MaxTopics == 2
MaxRows == 3
MaxTopK == 2

(* ------------------------- program constants -------------------------- *)
SimilarityFloor == 30
ConfidenceFloor == 50

(* ------------------------------ strings ------------------------------- *)
Alphabet == {"a", "A", "b"}

ToLowerChar(c) ==
  CASE c = "A" -> "a"
    [] c = "B" -> "b"
    [] OTHER -> c

ToLowerCase(s) == [i \in 1..Len(s) |-> ToLowerChar(s[i])]

Includes(s, t) ==
  \E k \in 0..(Len(s) - Len(t)) : SubSeq(s, k + 1, k + Len(t)) = t

SeqsUpTo(S, n) == UNION {[1..k -> S] : k \in 0..n}

Messages == SeqsUpTo(Alphabet, MaxMsgLen) \ {<<>>}

TopicPool == {<<"a">>, <<"B">>, <<"A", "b">>}

TopicLists == SeqsUpTo(TopicPool, MaxTopics)

(* --------------------------- block reasons ---------------------------- *)
NoReason == [text |-> "", topic |-> <<>>]
KillReason == [text |-> "Agent kill switch is enabled", topic |-> <<>>]
CostReason == [text |-> "Daily cost limit exceeded", topic |-> <<>>]
ForbiddenReason(topic) ==
  [text |-> "Message contains forbidden topic", topic |-> topic]
NotAllowedReason ==
  [text |-> "Message does not match any allowed topics", topic |-> <<>>]
NoEvidenceReason ==
  [text |-> "INTERNAL mode requires document evidence. No relevant documents found.",
   topic |-> <<>>]
LowConfidenceReason ==
  [text |-> "INTERNAL mode requires high-confidence evidence. Available evidence has low similarity scores.",
   topic |-> <<>>]

(* --------------------------- checkContract ---------------------------- *)
ForbiddenHits(messageLower, forbiddenTopics) ==
  {i \in 1..Len(forbiddenTopics) :
     Includes(messageLower, ToLowerCase(forbiddenTopics[i]))}

ForbiddenHitsCaseSensitive(messageLower, forbiddenTopics) ==
  {i \in 1..Len(forbiddenTopics) : Includes(messageLower, forbiddenTopics[i])}

MatchesAllowed(messageLower, allowedTopics) ==
  \E i \in 1..Len(allowedTopics) :
     Includes(messageLower, ToLowerCase(allowedTopics[i]))

checkContractAllowedFirst(message, forbiddenTopics, allowedTopics) ==
  LET messageLower == ToLowerCase(message)
      hits == ForbiddenHits(messageLower, forbiddenTopics)
  IN  IF Len(allowedTopics) > 0 /\ MatchesAllowed(messageLower, allowedTopics)
        THEN [allowed |-> TRUE, reason |-> NoReason]
      ELSE IF hits # {}
        THEN [allowed |-> FALSE,
              reason |-> ForbiddenReason(
                 forbiddenTopics[CHOOSE i \in hits : \A j \in hits : i <= j])]
      ELSE IF Len(allowedTopics) > 0
        THEN [allowed |-> FALSE, reason |-> NotAllowedReason]
      ELSE [allowed |-> TRUE, reason |-> NoReason]

checkContract(message, forbiddenTopics, allowedTopics) ==
  LET messageLower == ToLowerCase(message)
      hits == ForbiddenHits(messageLower, forbiddenTopics)
  IN  IF hits # {}
        THEN [allowed |-> FALSE,
              reason |-> ForbiddenReason(
                 forbiddenTopics[CHOOSE i \in hits : \A j \in hits : i <= j])]
      ELSE IF Len(allowedTopics) > 0
              /\ ~MatchesAllowed(messageLower, allowedTopics)
        THEN [allowed |-> FALSE, reason |-> NotAllowedReason]
      ELSE [allowed |-> TRUE, reason |-> NoReason]

(* ----------------------- checkModeRequirements ------------------------ *)
MaxSimilarity(evidence) ==
  LET scores == {evidence[i].similarity_score : i \in 1..Len(evidence)}
  IN  CHOOSE m \in scores : \A s \in scores : s <= m

checkModeRequirementsNoConfidence(mode, evidence) ==
  IF mode = "INTERNAL" /\ Len(evidence) = 0
    THEN [allowed |-> FALSE, reason |-> NoEvidenceReason]
    ELSE [allowed |-> TRUE, reason |-> NoReason]

checkModeRequirements(mode, evidence) ==
  IF mode = "INTERNAL"
    THEN IF Len(evidence) = 0
           THEN [allowed |-> FALSE, reason |-> NoEvidenceReason]
         ELSE IF MaxSimilarity(evidence) < ConfidenceFloor
           THEN [allowed |-> FALSE, reason |-> LowConfidenceReason]
         ELSE [allowed |-> TRUE, reason |-> NoReason]
    ELSE [allowed |-> TRUE, reason |-> NoReason]

(* -------------------------- cosineSimilarity -------------------------- *)
(* Embedding vectors are integer 4-tuples whose squared norms are perfect  *)
(* squares, so the quotient below is the exact cosine, in hundredths.      *)
ISqrt(n) == CHOOSE r \in 0..n : r * r <= n /\ n < (r + 1) * (r + 1)

Dot(a, b, i) == a[i] * b[i]

SumTo(a, b, n) ==
  LET RECURSIVE Acc(_)
      Acc(i) == IF i = 0 THEN 0 ELSE Dot(a, b, i) + Acc(i - 1)
  IN  Acc(n)

cosineSimilarity(a, b) ==
  IF Len(a) # Len(b) THEN 0
  ELSE LET dotProduct == SumTo(a, b, Len(a))
           normA == SumTo(a, a, Len(a))
           normB == SumTo(b, b, Len(b))
       IN  IF normA = 0 \/ normB = 0 THEN 0
           ELSE (100 * dotProduct) \div (ISqrt(normA) * ISqrt(normB))

V20 == <<2, 8, 4, 4>>
V30 == <<3, 9, 3, 1>>
V40 == <<4, 8, 4, 2>>
V50 == <<5, 5, 5, 5>>
V60 == <<6, 8, 0, 0>>

(* The embedding provider, as a fixture: every query embeds to the first   *)
(* unit vector, so V20..V60 score 20..60 against it.                       *)
generateEmbedding(text) == <<1, 0, 0, 0>>

(* ------------------------------ the store ----------------------------- *)
TenantIds == {"t1", "t2"}
AgentIds == {"a1"}
CollectionIds == {"c1", "c2", "c3"}
DocIds == {"d1", "d2"}

VARIABLES
  agents,             \* agents table: id -> row
  collections,        \* collections table: id -> [tenant_id, is_global]
  agent_collections,  \* link table: set of <<agent_id, collection_id>>
  documents,          \* documents table: id -> row (deleted ids are absent)
  embeddings,         \* embeddings table: sequence of rows, in heap order
  decision_logs,      \* decision_logs table: sequence of rows
  chat_messages,      \* chat_messages table: sequence of rows
  turns,              \* chat turns: id -> locals and position of the call
  runs,               \* processDocument calls: id -> locals and position
  rq,                 \* a retrieveContext call running beside ingestion
  dq,                 \* a DELETE /documents/:id request in progress
  fnIn,               \* arguments of the function under test
  fnOut,              \* result of checkContract / retrieveContext
  pgOut               \* result of retrieveContextWithPgVector

storeVars == <<agents, collections, agent_collections, documents, embeddings>>
chatVars == <<decision_logs, chat_messages, turns>>
ingestVars == <<runs, rq, dq>>
fnVars == <<fnIn, fnOut, pgOut>>
vars == <<storeVars, chatVars, ingestVars, fnVars>>

None == [kind |-> "none"]

(* ------------------------- retrieval: queries ------------------------- *)
\* SELECT DISTINCT c.id FROM collections c LEFT JOIN agent_collections ac ...
CollectionsQueryNoTenant(agentId, tenantId) ==
  {c \in DOMAIN collections :
     <<agentId, c>> \in agent_collections \/ collections[c].is_global}

CollectionsQuery(agentId, tenantId) ==
  {c \in DOMAIN collections :
     /\ collections[c].tenant_id = tenantId
     /\ (<<agentId, c>> \in agent_collections \/ collections[c].is_global)}

\* SELECT e.*, d.version ... FROM embeddings e JOIN documents d ...
\*   WHERE d.collection_id = ANY(ids) AND d.status = 'completed'
\* The result is the set of positions of the selected rows in the table.
EmbeddingsQueryAnyStatus(collectionIds) ==
  {i \in 1..Len(embeddings) :
     /\ embeddings[i].document_id \in DOMAIN documents
     /\ documents[embeddings[i].document_id].collection_id \in collectionIds}

EmbeddingsQuery(collectionIds) ==
  {i \in 1..Len(embeddings) :
     /\ embeddings[i].document_id \in DOMAIN documents
     /\ documents[embeddings[i].document_id].collection_id \in collectionIds
     /\ documents[embeddings[i].document_id].status = "completed"}

\* The orders in which a query without ORDER BY may return the rows.
ScanOrders(rowSet) ==
  {o \in [1..Cardinality(rowSet) -> rowSet] :
     \A i, j \in 1..Cardinality(rowSet) : i # j => o[i] # o[j]}

(* ------------------------- retrieval: ranking ------------------------- *)
ScoredChunk(queryEmbedding, i) ==
  [document_id |-> embeddings[i].document_id,
   document_version |-> documents[embeddings[i].document_id].version,
   chunk_index |-> embeddings[i].chunk_index,
   similarity_score |-> cosineSimilarity(queryEmbedding, embeddings[i].embedding)]

\* Array.prototype.sort with (a, b) => b.similarity - a.similarity: stable.
SortDescending(chunks) ==
  LET n == Len(chunks)
      Before(j, i) ==
        \/ chunks[j].similarity_score > chunks[i].similarity_score
        \/ chunks[j].similarity_score = chunks[i].similarity_score /\ j < i
      Rank(i) == Cardinality({j \in 1..n : Before(j, i)}) + 1
  IN  [p \in 1..n |-> chunks[CHOOSE i \in 1..n : Rank(i) = p]]

Slice(chunks, k) == SubSeq(chunks, 1, IF k < Len(chunks) THEN k ELSE Len(chunks))

AboveFloorInclusive(chunks) ==
  SelectSeq(chunks, LAMBDA c : c.similarity_score >= SimilarityFloor)

AboveFloor(chunks) ==
  SelectSeq(chunks, LAMBDA c : c.similarity_score > SimilarityFloor)

\* retrieveContext after its two queries: score, sort, slice, filter.
RankLinear(queryEmbedding, scanOrder, topK) ==
  LET scoredChunks ==
        [p \in 1..Len(scanOrder) |-> ScoredChunk(queryEmbedding, scanOrder[p])]
  IN  AboveFloor(Slice(SortDescending(scoredChunks), topK))

\* retrieveContextWithPgVector: ORDER BY distance LIMIT topK in the store,
\* then the filter in the caller.  sortOrder is one order the store's sort
\* may produce: ties of distance are in no specified order.
RankPgVectorInclusiveFloor(queryEmbedding, sortOrder, topK) ==
  LET scored ==
        [p \in 1..Len(sortOrder) |-> ScoredChunk(queryEmbedding, sortOrder[p])]
  IN  AboveFloorInclusive(Slice(SortDescending(scored), topK))

RankPgVector(queryEmbedding, sortOrder, topK) ==
  LET scored ==
        [p \in 1..Len(sortOrder) |-> ScoredChunk(queryEmbedding, sortOrder[p])]
  IN  AboveFloor(Slice(SortDescending(scored), topK))

(* -------------------------- retrieval: calls -------------------------- *)
\* Every result retrieveContext can return in the current store.  The
\* catch-all handler turns a failed embedding call or store query into the
\* empty result (degraded).
retrieveContext(query, agentId, tenantId, topK) ==
  LET queryEmbedding == generateEmbedding(query)
      collectionIds == CollectionsQuery(agentId, tenantId)
      rowSet == EmbeddingsQuery(collectionIds)
  IN  {[evidence |-> <<>>, degraded |-> TRUE, path |-> "linear"]}
      \cup
      (IF collectionIds = {} \/ rowSet = {}
         THEN {[evidence |-> <<>>, degraded |-> FALSE, path |-> "linear"]}
         ELSE {[evidence |-> RankLinear(queryEmbedding, o, topK),
                degraded |-> FALSE, path |-> "linear"] : o \in ScanOrders(rowSet)})

\* Every result retrieveContextWithPgVector can return: the extension is
\* absent, or a step throws, and the call falls back to retrieveContext; or
\* the pgvector query answers.
retrieveContextWithPgVector(query, agentId, tenantId, topK) ==
  LET queryEmbedding == generateEmbedding(query)
      collectionIds == CollectionsQuery(agentId, tenantId)
      rowSet == EmbeddingsQuery(collectionIds)
      fallback ==
        {[r EXCEPT !.path = "fallback"] :
           r \in retrieveContext(query, agentId, tenantId, topK)}
  IN  fallback
      \cup
      (IF collectionIds = {}
         THEN {[evidence |-> <<>>, degraded |-> FALSE, path |-> "pgvector"]}
         ELSE {[evidence |-> RankPgVector(queryEmbedding, o, topK),
                degraded |-> FALSE, path |-> "pgvector"] : o \in ScanOrders(rowSet)})

(* ------------------------------ fixtures ------------------------------ *)
Modes == {"INTERNAL", "HYBRID", "FREE"}

DefaultAgent ==
  [tenant_id |-> "t1", is_active |-> TRUE, kill_switch |-> FALSE,
   cost_used_today |-> 0, cost_limit_daily |-> 10, mode |-> "HYBRID",
   enable_rag |-> TRUE, forbidden_topics |-> <<>>, allowed_topics |-> <<>>]

\* c1 is linked to a1; c2 is a collection of the same tenant that is neither
\* linked nor global; c3 belongs to another tenant, is global and is linked
\* to a1 as well (agent_collections rows are inserted without a tenant check).
FixtureCollections ==
  [c \in CollectionIds |->
     [tenant_id |-> IF c = "c3" THEN "t2" ELSE "t1", is_global |-> c = "c3"]]

FixtureLinks == {<<"a1", "c1">>, <<"a1", "c3">>}

RetrievalVectors == {V20, V30, V40, V60}

\* Tables of up to n rows: the rows belong alternately to d1 and d2, as
\* chunks 0, 1, ... of their document, with any of the given vectors.
EmbeddingTables(vectors, n) ==
  UNION {{[i \in 1..k |->
             [document_id |-> IF i % 2 = 1 THEN "d1" ELSE "d2",
              chunk_index |-> (i - 1) \div 2,
              embedding |-> f[i]]] : f \in [1..k -> vectors]} : k \in 0..n}

(* ------------------ specification: checkContract alone ---------------- *)
InitContract ==
  /\ agents = <<>>
  /\ collections = <<>>
  /\ agent_collections = {}
  /\ documents = <<>>
  /\ embeddings = <<>>
  /\ fnIn \in [kind : {"contract"}, message : Messages,
               forbidden_topics : TopicLists, allowed_topics : TopicLists]
  /\ fnOut = None
  /\ pgOut = None
  /\ decision_logs = <<>>
  /\ chat_messages = <<>>
  /\ turns = <<>>
  /\ runs = <<>>
  /\ rq = None
  /\ dq = None

CallCheckContract ==
  /\ fnIn.kind = "contract"
  /\ fnOut = None
  /\ fnOut' = checkContract(fnIn.message, fnIn.forbidden_topics, fnIn.allowed_topics)
  /\ UNCHANGED <<storeVars, chatVars, ingestVars, fnIn, pgOut>>

NextContract == CallCheckContract

SpecContract == InitContract /\ [][NextContract]_vars

(* ------------------- specification: retrieval alone ------------------- *)
InitRetrieve ==
  /\ agents = [a \in AgentIds |-> DefaultAgent]
  /\ collections = FixtureCollections
  /\ agent_collections = FixtureLinks
  /\ \E st \in {"completed", "processing"} :
       documents = [d \in DocIds |->
                      [collection_id |-> "c1", version |-> 1,
                       status |-> IF d = "d1" THEN "completed" ELSE st]]
  /\ embeddings \in EmbeddingTables(RetrievalVectors, MaxRows)
  /\ fnIn \in [kind : {"retrieve"}, query : {<<"a">>}, agentId : {"a1"},
               tenantId : {"t1"}, topK : 1..MaxTopK]
  /\ fnOut = None
  /\ pgOut = None
  /\ decision_logs = <<>>
  /\ chat_messages = <<>>
  /\ turns = <<>>
  /\ runs = <<>>
  /\ rq = None
  /\ dq = None

CallRetrieveContext ==
  /\ fnIn.kind = "retrieve"
  /\ fnOut = None
  /\ fnOut' \in retrieveContext(fnIn.query, fnIn.agentId, fnIn.tenantId, fnIn.topK)
  /\ UNCHANGED <<storeVars, chatVars, ingestVars, fnIn, pgOut>>

CallRetrieveContextWithPgVector ==
  /\ fnIn.kind = "retrieve"
  /\ pgOut = None
  /\ pgOut' \in retrieveContextWithPgVector(fnIn.query, fnIn.agentId,
                                             fnIn.tenantId, fnIn.topK)
  /\ UNCHANGED <<storeVars, chatVars, ingestVars, fnIn, fnOut>>

NextRetrieve == CallRetrieveContext \/ CallRetrieveContextWithPgVector

SpecRetrieve == InitRetrieve /\ [][NextRetrieve]_vars

(* ===================== claims on the pure functions =================== *)
CIContains(m, t) ==
  \E k \in 0..(Len(m) - Len(t)) :
     \A i \in 1..Len(t) : ToLowerChar(m[k + i]) = ToLowerChar(t[i])

\* C5: checkContract blocks a message that contains, case-insensitively and
\* as a substring, a forbidden topic, citing the first such topic in list
\* order, also when an allowed topic matches; otherwise it blocks with the
\* generic reason when allowed_topics is non-empty and none of them occurs
\* in the message; otherwise it allows.
C5_ContractDecision ==
  fnOut # None =>
    LET m == fnIn.message
        F == fnIn.forbidden_topics
        A == fnIn.allowed_topics
        hit == {i \in 1..Len(F) : CIContains(m, F[i])}
    IN  IF hit # {}
          THEN /\ ~fnOut.allowed
               /\ \E i \in hit : /\ \A j \in hit : i <= j
                                 /\ fnOut.reason = ForbiddenReason(F[i])
        ELSE IF Len(A) > 0 /\ \A j \in 1..Len(A) : ~CIContains(m, A[j])
          THEN ~fnOut.allowed /\ fnOut.reason = NotAllowedReason
        ELSE fnOut.allowed /\ fnOut.reason = NoReason

\* A message that matches an allowed topic and, only through a change of
\* case, the second forbidden topic of the list: blocked citing that topic.
C5_Witness ==
  /\ fnOut # None
  /\ Len(fnIn.forbidden_topics) = 2
  /\ ~CIContains(fnIn.message, fnIn.forbidden_topics[1])
  /\ CIContains(fnIn.message, fnIn.forbidden_topics[2])
  /\ ~Includes(fnIn.message, fnIn.forbidden_topics[2])
  /\ \E j \in 1..Len(fnIn.allowed_topics) :
        CIContains(fnIn.message, fnIn.allowed_topics[j])
  /\ ~fnOut.allowed
  /\ fnOut.reason = ForbiddenReason(fnIn.forbidden_topics[2])

\* The candidate fragments of the call under test, as positions in the
\* embeddings table, and their scores.
Candidates ==
  {i \in 1..Len(embeddings) :
     LET d == embeddings[i].document_id
     IN  /\ d \in DOMAIN documents
         /\ documents[d].status = "completed"
         /\ documents[d].collection_id \in DOMAIN collections
         /\ collections[documents[d].collection_id].tenant_id = fnIn.tenantId
         /\ \/ <<fnIn.agentId, documents[d].collection_id>> \in agent_collections
            \/ collections[documents[d].collection_id].is_global}

Score(i) == cosineSimilarity(generateEmbedding(fnIn.query), embeddings[i].embedding)

FragmentId(i) == <<embeddings[i].document_id, embeddings[i].chunk_index>>

EvidenceIds(ev) == {<<ev[p].document_id, ev[p].chunk_index>> : p \in 1..Len(ev)}

NonIncreasing(ev) ==
  \A p, q \in 1..Len(ev) : p < q => ev[p].similarity_score >= ev[q].similarity_score

\* ev holds exactly the members of some top-k selection of the candidates
\* whose score satisfies Keep, each once, in non-increasing score order.
IsTopKWithFloor(ev, k, Keep(_)) ==
  /\ NonIncreasing(ev)
  /\ Len(ev) <= k
  /\ Cardinality(EvidenceIds(ev)) = Len(ev)
  /\ \A p \in 1..Len(ev) :
        \E i \in Candidates : /\ FragmentId(i) = <<ev[p].document_id, ev[p].chunk_index>>
                              /\ Score(i) = ev[p].similarity_score
  /\ \E T \in SUBSET Candidates :
        /\ Cardinality(T) = IF k < Cardinality(Candidates) THEN k
                            ELSE Cardinality(Candidates)
        /\ \A x \in T : \A y \in Candidates \ T : Score(x) >= Score(y)
        /\ EvidenceIds(ev) = {FragmentId(x) : x \in {y \in T : Keep(Score(y))}}

\* C7: retrieval returns exactly the candidates that are among the top_k
\* highest-scoring ones and whose similarity is not below the 0.3 floor (a
\* score of exactly 0.3 is kept), in non-increasing score order, never more
\* than top_k items.  Stated for both paths, for results that were not
\* degraded by a failed call.
C7_TopKFloorInclusive ==
  /\ (fnOut # None /\ ~fnOut.degraded) =>
        IsTopKWithFloor(fnOut.evidence, fnIn.topK, LAMBDA x : x >= SimilarityFloor)
  /\ (pgOut # None /\ ~pgOut.degraded) =>
        IsTopKWithFloor(pgOut.evidence, fnIn.topK, LAMBDA x : x >= SimilarityFloor)

\* What the two paths do instead: a score of exactly 0.3 is discarded.
RetrievalTopKFloorExclusive ==
  /\ (fnOut # None /\ ~fnOut.degraded) =>
        IsTopKWithFloor(fnOut.evidence, fnIn.topK, LAMBDA x : x > SimilarityFloor)
  /\ (pgOut # None /\ ~pgOut.degraded) =>
        IsTopKWithFloor(pgOut.evidence, fnIn.topK, LAMBDA x : x > SimilarityFloor)

BothAnswered ==
  /\ fnOut # None /\ ~fnOut.degraded
  /\ pgOut # None /\ ~pgOut.degraded

Scores(ev) == [p \in 1..Len(ev) |-> ev[p].similarity_score]

MaxTokensK == 1
MaxLimit == 1

TurnIds == {"u1", "u2"}

\* completion.usage.total_tokens, in whole thousands.
TokenChoices == {1000 * k : k \in 0..MaxTokensK}

\* (tokensUsed / 1000) * 0.01 dollars, in cents.
EstimatedCost(tokensUsed) == tokensUsed \div 1000

ChatMessages == {<<"a">>, <<"A", "b">>}

TopicConfigs ==
  {[forbidden_topics |-> <<>>, allowed_topics |-> <<>>],
   [forbidden_topics |-> << <<"A", "b">> >>, allowed_topics |-> << <<"a">> >>]}

\* Stores a chat turn may find: d1 is a completed document of the linked
\* collection c1, d2 a completed document of c2, which is neither linked nor
\* global.
ChatDocuments ==
  [d \in DocIds |->
     [collection_id |-> IF d = "d1" THEN "c1" ELSE "c2", version |-> 1,
      status |-> "completed"]]

ChatTable(vectors) ==
  [i \in 1..(Len(vectors) + 1) |->
     IF i <= Len(vectors)
       THEN [document_id |-> "d1", chunk_index |-> i - 1, embedding |-> vectors[i]]
       ELSE [document_id |-> "d2", chunk_index |-> 0, embedding |-> V60]]

ChatStores ==
  {[enable_rag |-> TRUE, links |-> FixtureLinks, table |-> ChatTable(v)] :
     v \in {<<V20>>, <<V40>>, <<V50>>, <<V40, V60>>}}
  \cup {[enable_rag |-> TRUE, links |-> {<<"a1", "c3">>}, table |-> ChatTable(<<V60>>)],
        [enable_rag |-> FALSE, links |-> FixtureLinks, table |-> ChatTable(<<V60>>)]}

IdleTurn ==
  [pc |-> "idle", entry |-> "none", message |-> <<>>, agentId |-> "none",
   agent |-> None, evidence |-> <<>>, degraded |-> FALSE, blocked |-> FALSE,
   blockReason |-> NoReason, tokensUsed |-> 0, trace |-> <<>>, result |-> None]

\* The ChatResponse a blocked turn returns: tokensUsed 0, blocked, blockReason,
\* and evidence absent or [] (rag.ts 437-444, 451-458, 466-473, 491-499, 621-628).
BlockedResponse(reason) ==
  [blocked |-> TRUE, blockReason |-> reason, tokensUsed |-> 0, evidence |-> <<>>]

\* The ChatResponse of an answered turn (rag.ts 588-594, 648-661).
AnsweredResponse(tokensUsed, evidence) ==
  [blocked |-> FALSE, blockReason |-> NoReason, tokensUsed |-> tokensUsed,
   evidence |-> evidence]

\* Turn ids are handed out in order: the turns are interchangeable.
TurnFree(t) ==
  /\ turns[t].pc = "idle"
  /\ t = "u2" => turns["u1"].pc # "idle"

UploadedEvidence ==
  <<[document_id |-> "uploaded", document_version |-> 1, chunk_index |-> 0,
     similarity_score |-> 100]>>

\* SELECT * FROM agents WHERE id = $1 AND tenant_id = $2 AND is_active = true
AgentQuery(agentId, tenantId) ==
  {a \in DOMAIN agents :
     a = agentId /\ agents[a].tenant_id = tenantId /\ agents[a].is_active}

KillSwitchIgnored(agent) == FALSE

KillSwitchBlocks(agent) == agent.kill_switch

CostLimitBlocks(agent) == agent.cost_used_today >= agent.cost_limit_daily

\* The gates chat evaluates on the agent row without suspending: which of
\* them ran, in order, and the outcome (rag.ts 433-474).
GateSegment(agent, message) ==
  IF KillSwitchBlocks(agent)
    THEN [blocked |-> TRUE, reason |-> KillReason, trace |-> <<"kill">>]
  ELSE IF CostLimitBlocks(agent)
    THEN [blocked |-> TRUE, reason |-> CostReason, trace |-> <<"kill", "cost">>]
  ELSE LET contractCheck ==
             checkContract(message, agent.forbidden_topics, agent.allowed_topics)
       IN  IF ~contractCheck.allowed
             THEN [blocked |-> TRUE, reason |-> contractCheck.reason,
                   trace |-> <<"kill", "cost", "contract">>]
             ELSE [blocked |-> FALSE, reason |-> NoReason,
                   trace |-> <<"kill", "cost", "contract">>]

logDecisionKeepsLatest(tenantId, userId, agentId, decision, reason, inputPreview, insertOk) ==
  IF insertOk
    THEN <<[tenant_id |-> tenantId, user_id |-> userId, agent_id |-> agentId,
            action |-> "chat", decision |-> decision, reason |-> reason,
            input_preview |-> inputPreview]>>
    ELSE decision_logs

\* logDecision: the insert, or nothing when the insert throws (swallowed).
logDecision(tenantId, userId, agentId, decision, reason, inputPreview, insertOk) ==
  IF insertOk
    THEN Append(decision_logs,
                [tenant_id |-> tenantId, user_id |-> userId, agent_id |-> agentId,
                 action |-> "chat", decision |-> decision, reason |-> reason,
                 input_preview |-> inputPreview])
    ELSE decision_logs

AllowedReason == [text |-> "Response generated", topic |-> <<>>]

\* chat, from the agent query to the contract check (rag.ts 421-474).
ChatBegin(t, a, message) ==
  /\ TurnFree(t)
  /\ IF AgentQuery(a, "t1") = {}
       THEN /\ turns' = [turns EXCEPT ![t] =
                           [@ EXCEPT !.pc = "failed", !.entry = "chat",
                                     !.message = message, !.agentId = a]]
            /\ UNCHANGED decision_logs
       ELSE LET agent == agents[a]
                g == GateSegment(agent, message)
                started == [turns[t] EXCEPT !.entry = "chat", !.message = message,
                                            !.agentId = a, !.agent = agent,
                                            !.trace = g.trace]
            IN  IF g.blocked
                  THEN /\ \E insertOk \in BOOLEAN :
                            decision_logs' =
                              logDecision("t1", "usr1", a, "blocked", g.reason,
                                          message, insertOk)
                       /\ turns' = [turns EXCEPT ![t] =
                                      [started EXCEPT !.pc = "done", !.blocked = TRUE,
                                                      !.blockReason = g.reason,
                                                      !.result = BlockedResponse(g.reason),
                                                      !.trace = g.trace \o <<"log">>]]
                  ELSE /\ turns' = [turns EXCEPT ![t] =
                                      [started EXCEPT !.pc =
                                         IF agent.enable_rag THEN "retrieve" ELSE "mode"]]
                       /\ UNCHANGED decision_logs
  /\ UNCHANGED <<storeVars, chat_messages, ingestVars, fnVars>>

ChatRetrieveRaises(t) ==
  /\ turns[t].pc = "retrieve"
  /\ \E r \in retrieveContext(turns[t].message, turns[t].agentId, "t1", 5) :
        turns' = [turns EXCEPT ![t] =
                    [@ EXCEPT !.pc = IF r.degraded THEN "failed" ELSE "mode",
                              !.evidence = r.evidence, !.degraded = r.degraded,
                              !.trace = @ \o <<"embed">>]]
  /\ UNCHANGED <<storeVars, decision_logs, chat_messages, ingestVars, fnVars>>

\* chat: retrieveContext(message, agentId, tenantId), top_k = 5 (rag.ts 480-484).
\* degraded notes that the call went through its catch block.
ChatRetrieve(t) ==
  /\ turns[t].pc = "retrieve"
  /\ \E r \in retrieveContext(turns[t].message, turns[t].agentId, "t1", 5) :
        turns' = [turns EXCEPT ![t] =
                    [@ EXCEPT !.pc = "mode", !.evidence = r.evidence,
                              !.degraded = r.degraded,
                              !.trace = @ \o <<"embed">>]]
  /\ UNCHANGED <<storeVars, decision_logs, chat_messages, ingestVars, fnVars>>

ChatModeGateReturnsEvidence(t) ==
  /\ turns[t].pc = "mode"
  /\ LET modeCheck == checkModeRequirements(turns[t].agent.mode, turns[t].evidence)
     IN  IF ~modeCheck.allowed
           THEN /\ \E insertOk \in BOOLEAN :
                     decision_logs' =
                       logDecision("t1", "usr1", turns[t].agentId, "blocked",
                                   modeCheck.reason, turns[t].message, insertOk)
                /\ turns' = [turns EXCEPT ![t] =
                               [@ EXCEPT !.pc = "done", !.blocked = TRUE,
                                         !.blockReason = modeCheck.reason,
                                         !.result =
                                           [BlockedResponse(modeCheck.reason)
                                              EXCEPT !.evidence = turns[t].evidence],
                                         !.trace = @ \o <<"mode", "log">>]]
           ELSE /\ turns' = [turns EXCEPT ![t] =
                               [@ EXCEPT !.pc = "complete", !.trace = @ \o <<"mode">>]]
                /\ UNCHANGED decision_logs
  /\ UNCHANGED <<storeVars, chat_messages, ingestVars, fnVars>>

\* chat: the mode gate (rag.ts 486-500).
ChatModeGate(t) ==
  /\ turns[t].pc = "mode"
  /\ LET modeCheck == checkModeRequirements(turns[t].agent.mode, turns[t].evidence)
     IN  IF ~modeCheck.allowed
           THEN /\ \E insertOk \in BOOLEAN :
                     decision_logs' =
                       logDecision("t1", "usr1", turns[t].agentId, "blocked",
                                   modeCheck.reason, turns[t].message, insertOk)
                /\ turns' = [turns EXCEPT ![t] =
                               [@ EXCEPT !.pc = "done", !.blocked = TRUE,
                                         !.blockReason = modeCheck.reason,
                                         !.result = BlockedResponse(modeCheck.reason),
                                         !.trace = @ \o <<"mode", "log">>]]
           ELSE /\ turns' = [turns EXCEPT ![t] =
                               [@ EXCEPT !.pc = "complete", !.trace = @ \o <<"mode">>]]
                /\ UNCHANGED decision_logs
  /\ UNCHANGED <<storeVars, chat_messages, ingestVars, fnVars>>

ChatCompleteRetries(t) ==
  /\ turns[t].pc = "complete"
  /\ \/ \E tokensUsed \in TokenChoices :
          turns' = [turns EXCEPT ![t] =
                      [@ EXCEPT !.pc = "cost", !.tokensUsed = tokensUsed,
                                !.trace = @ \o <<"complete">>]]
     \/ turns' = [turns EXCEPT ![t] =
                    [@ EXCEPT !.pc = "failed",
                              !.trace = @ \o <<"complete", "complete">>]]
  /\ UNCHANGED <<storeVars, decision_logs, chat_messages, ingestVars, fnVars>>

\* chat: the completion call; it answers with a token count or throws
\* (rag.ts 540-551).
ChatComplete(t) ==
  /\ turns[t].pc = "complete"
  /\ \/ \E tokensUsed \in TokenChoices :
          turns' = [turns EXCEPT ![t] =
                      [@ EXCEPT !.pc = "cost", !.tokensUsed = tokensUsed,
                                !.trace = @ \o <<"complete">>]]
     \/ turns' = [turns EXCEPT ![t] =
                    [@ EXCEPT !.pc = "failed", !.trace = @ \o <<"complete">>]]
  /\ UNCHANGED <<storeVars, decision_logs, chat_messages, ingestVars, fnVars>>

\* chat: UPDATE agents SET cost_used_today = cost_used_today + $1 (rag.ts 553-560).
ChatRecordCost(t) ==
  /\ turns[t].pc = "cost"
  /\ agents' = [a \in DOMAIN agents |->
                  IF a = turns[t].agentId
                    THEN [agents[a] EXCEPT !.cost_used_today =
                            @ + EstimatedCost(turns[t].tokensUsed)]
                    ELSE agents[a]]
  /\ turns' = [turns EXCEPT ![t] = [@ EXCEPT !.pc = "save"]]
  /\ UNCHANGED <<collections, agent_collections, documents, embeddings,
                 decision_logs, chat_messages, ingestVars, fnVars>>

\* chat: the user and the assistant message are stored (rag.ts 562-577).
ChatSaveMessages(t) ==
  /\ turns[t].pc = "save"
  /\ chat_messages' =
       chat_messages \o
         <<[tenant_id |-> "t1", user_id |-> "usr1", agent_id |-> turns[t].agentId,
            conversation_id |-> t, role |-> "user", content |-> turns[t].message],
           [tenant_id |-> "t1", user_id |-> "usr1", agent_id |-> turns[t].agentId,
            conversation_id |-> t, role |-> "assistant", content |-> <<"response">>]>>
  /\ turns' = [turns EXCEPT ![t] = [@ EXCEPT !.pc = "log"]]
  /\ UNCHANGED <<storeVars, decision_logs, ingestVars, fnVars>>

ChatLogAllowedRaises(t) ==
  /\ turns[t].pc = "log"
  /\ \E insertOk \in BOOLEAN :
       /\ decision_logs' = logDecision("t1", "usr1", turns[t].agentId, "allowed",
                                       AllowedReason, turns[t].message, insertOk)
       /\ turns' = [turns EXCEPT ![t] =
                      [@ EXCEPT !.pc = IF insertOk THEN "done" ELSE "failed",
                                !.trace = @ \o <<"log">>,
                                !.result = IF insertOk
                                             THEN AnsweredResponse(turns[t].tokensUsed, turns[t].evidence)
                                             ELSE None]]
  /\ UNCHANGED <<storeVars, chat_messages, ingestVars, fnVars>>

\* chat: the allowed decision is logged and the response returned
\* (rag.ts 579-594).
ChatLogAllowed(t) ==
  /\ turns[t].pc = "log"
  /\ \E insertOk \in BOOLEAN :
       decision_logs' = logDecision("t1", "usr1", turns[t].agentId, "allowed",
                                    AllowedReason, turns[t].message, insertOk)
  /\ turns' = [turns EXCEPT ![t] =
                 [@ EXCEPT !.pc = "done", !.trace = @ \o <<"log">>,
                           !.result = AnsweredResponse(turns[t].tokensUsed, turns[t].evidence)]]
  /\ UNCHANGED <<storeVars, chat_messages, ingestVars, fnVars>>

\* chatWithDocument, from the agent query to the kill-switch check
\* (rag.ts 605-629).
ChatWithDocumentBegin(t, a, message) ==
  /\ TurnFree(t)
  /\ IF AgentQuery(a, "t1") = {}
       THEN turns' = [turns EXCEPT ![t] =
                        [@ EXCEPT !.pc = "failed", !.entry = "chatWithDocument",
                                  !.message = message, !.agentId = a]]
       ELSE LET agent == agents[a]
                started == [turns[t] EXCEPT !.entry = "chatWithDocument",
                                            !.message = message, !.agentId = a,
                                            !.agent = agent, !.trace = <<"kill">>]
            IN  IF KillSwitchBlocks(agent)
                  THEN turns' = [turns EXCEPT ![t] =
                                   [started EXCEPT !.pc = "done", !.blocked = TRUE,
                                                   !.blockReason = KillReason,
                                                   !.result = BlockedResponse(KillReason)]]
                  ELSE turns' = [turns EXCEPT ![t] =
                                   [started EXCEPT !.pc = "complete_document"]]
  /\ UNCHANGED <<storeVars, decision_logs, chat_messages, ingestVars, fnVars>>

\* chatWithDocument: the completion call and the return (rag.ts 631-662).
ChatWithDocumentComplete(t) ==
  /\ turns[t].pc = "complete_document"
  /\ \/ \E tokensUsed \in TokenChoices :
          turns' = [turns EXCEPT ![t] =
                      [@ EXCEPT !.pc = "done", !.tokensUsed = tokensUsed,
                                !.evidence = UploadedEvidence,
                                !.trace = @ \o <<"complete">>,
                                !.result = AnsweredResponse(tokensUsed, UploadedEvidence)]]
     \/ turns' = [turns EXCEPT ![t] =
                    [@ EXCEPT !.pc = "failed", !.trace = @ \o <<"complete">>]]
  /\ UNCHANGED <<storeVars, decision_logs, chat_messages, ingestVars, fnVars>>

\* POST /agents/:id/kill-switch (routes/logs.ts 416-436).
ToggleKillSwitch(a, enabled) ==
  /\ a \in DOMAIN agents /\ agents[a].tenant_id = "t1"
  /\ agents' = [agents EXCEPT ![a] = [@ EXCEPT !.kill_switch = enabled]]
  /\ UNCHANGED <<collections, agent_collections, documents, embeddings,
                 chatVars, ingestVars, fnVars>>

\* POST /agents/:id/reset-cost (routes/logs.ts 439-457).
ResetCost(a) ==
  /\ a \in DOMAIN agents /\ agents[a].tenant_id = "t1"
  /\ agents' = [agents EXCEPT ![a] = [@ EXCEPT !.cost_used_today = 0]]
  /\ UNCHANGED <<collections, agent_collections, documents, embeddings,
                 chatVars, ingestVars, fnVars>>

InitChat ==
  /\ \E mode \in Modes, topics \in TopicConfigs, limit \in 0..MaxLimit,
        store \in ChatStores :
       /\ agents = [a \in AgentIds |->
                      [DefaultAgent EXCEPT !.mode = mode, !.enable_rag = store.enable_rag,
                                           !.cost_limit_daily = limit,
                                           !.forbidden_topics = topics.forbidden_topics,
                                           !.allowed_topics = topics.allowed_topics]]
       /\ agent_collections = store.links
       /\ embeddings = store.table
  /\ collections = FixtureCollections
  /\ documents = ChatDocuments
  /\ decision_logs = <<>>
  /\ chat_messages = <<>>
  /\ turns = [t \in TurnIds |-> IdleTurn]
  /\ runs = <<>>
  /\ rq = None
  /\ dq = None
  /\ fnIn = None
  /\ fnOut = None
  /\ pgOut = None

NextChat ==
  \/ \E t \in TurnIds, a \in AgentIds, m \in ChatMessages : ChatBegin(t, a, m)
  \/ \E t \in TurnIds : ChatRetrieve(t)
  \/ \E t \in TurnIds : ChatModeGate(t)
  \/ \E t \in TurnIds : ChatComplete(t)
  \/ \E t \in TurnIds : ChatRecordCost(t)
  \/ \E t \in TurnIds : ChatSaveMessages(t)
  \/ \E t \in TurnIds : ChatLogAllowed(t)
  \/ \E t \in TurnIds, a \in AgentIds, m \in ChatMessages : ChatWithDocumentBegin(t, a, m)
  \/ \E t \in TurnIds : ChatWithDocumentComplete(t)
  \/ \E a \in AgentIds, enabled \in BOOLEAN : ToggleKillSwitch(a, enabled)
  \/ \E a \in AgentIds : ResetCost(a)

SpecChat == InitChat /\ [][NextChat]_vars

(* --------------------------- chat turn claims ------------------------- *)
Started(t) == turns[t].entry # "none" /\ turns[t].agent # None

TraceHas(t, step) == \E i \in DOMAIN turns[t].trace : turns[t].trace[i] = step

Precedes(t, first, second) ==
  \E i, j \in DOMAIN turns[t].trace :
    i < j /\ turns[t].trace[i] = first /\ turns[t].trace[j] = second

NoProviderCall(t) == ~TraceHas(t, "embed") /\ ~TraceHas(t, "complete")

\* C1: on every entry point a completion call is made only after the same
\* turn has passed the kill-switch check, the cost-limit check, the topic
\* contract check and the mode gate.
C1_AllGatesBeforeCompletion ==
  \A t \in TurnIds :
    TraceHas(t, "complete") =>
      \A gate \in {"kill", "cost", "contract", "mode"} : Precedes(t, gate, "complete")

\* The same statement for the turns of chat alone.
ChatAllGatesBeforeCompletion ==
  \A t \in TurnIds :
    (turns[t].entry = "chat" /\ TraceHas(t, "complete")) =>
      \A gate \in {"kill", "cost", "contract", "mode"} : Precedes(t, gate, "complete")

\* C2: whatever the message and the other agent settings, a turn that read
\* an agent with kill_switch = true is blocked with the kill-switch reason,
\* uses 0 tokens and makes no embedding and no completion call.
C2_KillSwitchBlocks ==
  \A t \in TurnIds :
    (Started(t) /\ turns[t].agent.kill_switch) =>
      /\ turns[t].pc = "done"
      /\ turns[t].blocked
      /\ turns[t].blockReason = KillReason
      /\ turns[t].tokensUsed = 0
      /\ NoProviderCall(t)

\* A chat turn read a killed agent that is also over its cost limit and was
\* sent a forbidden message, and a document turn read a killed agent.
C2_Witness ==
  /\ turns["u1"].entry = "chat"
  /\ turns["u1"].agent.kill_switch
  /\ turns["u1"].agent.cost_used_today >= turns["u1"].agent.cost_limit_daily
  /\ ~checkContract(turns["u1"].message, turns["u1"].agent.forbidden_topics,
                    turns["u1"].agent.allowed_topics).allowed
  /\ turns["u1"].blocked
  /\ turns["u2"].entry = "chatWithDocument"
  /\ turns["u2"].agent.kill_switch
  /\ turns["u2"].blocked

\* C3: a turn that read an agent with kill_switch = false and
\* cost_used_today >= cost_limit_daily is blocked with the cost-limit
\* reason before any embedding or completion call.
C3_CostLimitBlocks ==
  \A t \in TurnIds :
    (/\ Started(t)
     /\ ~turns[t].agent.kill_switch
     /\ turns[t].agent.cost_used_today >= turns[t].agent.cost_limit_daily) =>
      /\ turns[t].pc = "done"
      /\ turns[t].blocked
      /\ turns[t].blockReason = CostReason
      /\ turns[t].tokensUsed = 0
      /\ NoProviderCall(t)

\* The same statement for the turns of chat alone.
ChatCostLimitBlocks ==
  \A t \in TurnIds :
    (/\ turns[t].entry = "chat" /\ Started(t)
     /\ ~turns[t].agent.kill_switch
     /\ turns[t].agent.cost_used_today >= turns[t].agent.cost_limit_daily) =>
      /\ turns[t].pc = "done"
      /\ turns[t].blocked
      /\ turns[t].blockReason = CostReason
      /\ turns[t].tokensUsed = 0
      /\ NoProviderCall(t)

\* A chat turn started when the counter, raised by an earlier turn, had
\* reached a positive limit exactly.
ChatCostLimitReached ==
  /\ turns["u2"].entry = "chat"
  /\ turns["u2"].agent.cost_limit_daily > 0
  /\ turns["u2"].agent.cost_used_today = turns["u2"].agent.cost_limit_daily
  /\ ~turns["u2"].agent.kill_switch
  /\ turns["u2"].blocked

IsPrefix(short, long) ==
  /\ Len(short) <= Len(long)
  /\ \A i \in 1..Len(short) : short[i] = long[i]

IsLog(step) == step = "log"

NotLog(step) == step # "log"

\* The steps the turn's own reads call for: every gate up to the first one
\* that fails, retrieval only when enable_rag, the completion call only when
\* every gate passed.
ExpectedSteps(t) ==
  LET agent == turns[t].agent
      contractCheck == checkContract(turns[t].message, agent.forbidden_topics,
                                     agent.allowed_topics)
      modeCheck == checkModeRequirements(agent.mode, turns[t].evidence)
      retrieval == IF agent.enable_rag THEN <<"embed">> ELSE <<>>
  IN  IF agent.kill_switch THEN <<"kill">>
      ELSE IF agent.cost_used_today >= agent.cost_limit_daily THEN <<"kill", "cost">>
      ELSE IF ~contractCheck.allowed THEN <<"kill", "cost", "contract">>
      ELSE IF ~modeCheck.allowed
        THEN <<"kill", "cost", "contract">> \o retrieval \o <<"mode">>
      ELSE <<"kill", "cost", "contract">> \o retrieval \o <<"mode", "complete">>

\* The reason of the first failing gate, NoReason when every gate passes.
ExpectedReason(t) ==
  LET agent == turns[t].agent
      contractCheck == checkContract(turns[t].message, agent.forbidden_topics,
                                     agent.allowed_topics)
      modeCheck == checkModeRequirements(agent.mode, turns[t].evidence)
  IN  IF agent.kill_switch THEN KillReason
      ELSE IF agent.cost_used_today >= agent.cost_limit_daily THEN CostReason
      ELSE IF ~contractCheck.allowed THEN contractCheck.reason
      ELSE IF ~modeCheck.allowed THEN modeCheck.reason
      ELSE NoReason

FixedOrder(t) ==
  LET steps == SelectSeq(turns[t].trace, NotLog)
      logs == SelectSeq(turns[t].trace, IsLog)
  IN  /\ IsPrefix(steps, ExpectedSteps(t))
      /\ Len(logs) <= 1
      /\ Len(logs) = 1 => turns[t].trace[Len(turns[t].trace)] = "log"
      /\ turns[t].pc = "done" =>
           /\ steps = ExpectedSteps(t)
           /\ turns[t].blocked <=> ExpectedReason(t) # NoReason
           /\ turns[t].blockReason = ExpectedReason(t)
           /\ turns[t].blocked => ~TraceHas(t, "complete")

\* C4: within one turn the steps run in the order kill switch, cost limit,
\* topic contract, retrieval (when enable_rag), mode gate, completion call,
\* decision log; the turn stops at the first failing gate, returns that
\* gate's reason, and runs no later step.
C4_FixedOrder == \A t \in TurnIds : Started(t) => FixedOrder(t)

\* The same statement for the turns of chat alone.
ChatFixedOrder ==
  \A t \in TurnIds : (turns[t].entry = "chat" /\ Started(t)) => FixedOrder(t)

\* A chat turn over its cost limit was sent a forbidden message, and a chat
\* turn ran every step to the decision log.
ChatFixedOrderReached ==
  /\ \E t \in TurnIds :
       /\ turns[t].entry = "chat"
       /\ turns[t].blockReason = CostReason
       /\ ~checkContract(turns[t].message, turns[t].agent.forbidden_topics,
                         turns[t].agent.allowed_topics).allowed
  /\ \E t \in TurnIds :
       turns[t].trace = <<"kill", "cost", "contract", "embed", "mode", "complete", "log">>

ReachesProvider(t) == turns[t].pc = "complete" \/ TraceHas(t, "complete")

ModePasses(t) ==
  \/ turns[t].agent.mode \in {"FREE", "HYBRID"}
  \/ /\ turns[t].agent.mode = "INTERNAL"
     /\ Len(turns[t].evidence) > 0
     /\ \E i \in DOMAIN turns[t].evidence :
          turns[t].evidence[i].similarity_score >= ConfidenceFloor

\* C6: a turn past the kill-switch, cost and contract checks reaches the
\* completion provider iff the mode is FREE or HYBRID, or INTERNAL with
\* non-empty evidence whose best score is >= 0.5; an INTERNAL turn with no
\* evidence is blocked with the no-evidence reason, one whose best score is
\* below 0.5 with a different, low-confidence reason.
C6_ModeGate ==
  /\ NoEvidenceReason # LowConfidenceReason
  /\ \A t \in TurnIds :
       (Started(t) /\ TraceHas(t, "contract") /\ TraceHas(t, "mode")) =>
         /\ ReachesProvider(t) <=> ModePasses(t)
         /\ ~ModePasses(t) =>
              /\ turns[t].pc = "done" /\ turns[t].blocked
              /\ turns[t].blockReason =
                   IF Len(turns[t].evidence) = 0 THEN NoEvidenceReason
                   ELSE LowConfidenceReason

\* An INTERNAL turn whose best evidence scores exactly 0.5 got its answer,
\* after an INTERNAL turn that found nothing was blocked.
C6_Witness ==
  /\ Started("u1") /\ Started("u2")
  /\ turns["u1"].agent.mode = "INTERNAL"
  /\ turns["u1"].blockReason = NoEvidenceReason
  /\ turns["u2"].agent.mode = "INTERNAL"
  /\ Len(turns["u2"].evidence) > 0
  /\ MaxSimilarity(turns["u2"].evidence) = ConfidenceFloor
  /\ TraceHas("u2", "complete")
  /\ turns["u2"].pc = "done"

(* ============================== ingestion ============================= *)
MaxChunks == 2

RunIds == {"r1", "r2"}

\* version is the document version the call was made for; it is kept for
\* the statements about versions, the code does not store it.
IdleRun ==
  [pc |-> "idle", documentId |-> "none", version |-> 0, chunks |-> 0, i |-> 0,
   start |-> 0]

\* processDocument calls are numbered in the order they are made.
RunFree(r) ==
  /\ runs[r].pc = "idle"
  /\ r = "r2" => runs["r1"].pc # "idle"

\* Document ids are handed out in order.
DocumentFree(d) ==
  /\ d \notin DOMAIN documents
  /\ d = "d2" => "d1" \in DOMAIN documents

SetStatus(d, status) ==
  IF d \in DOMAIN documents
    THEN [documents EXCEPT ![d] = [@ EXCEPT !.status = status]]
    ELSE documents

\* POST /documents/upload: INSERT ... 'pending', then processDocument is
\* called and not awaited.
UploadDocument(tenantId, d, c, r) ==
  /\ DocumentFree(d)
  /\ RunFree(r)
  /\ c \in DOMAIN collections /\ collections[c].tenant_id = tenantId
  /\ documents' = documents @@
       (d :> [tenant_id |-> tenantId, collection_id |-> c, version |-> 1,
              status |-> "pending", error_message |-> "NULL"])
  /\ runs' = [runs EXCEPT ![r] =
                [IdleRun EXCEPT !.pc = "select", !.documentId = d, !.version = 1]]
  /\ UNCHANGED <<agents, collections, agent_collections, embeddings, chatVars,
                 rq, dq, fnVars>>

\* POST /documents/:id/reprocess: status = 'pending', version = version + 1,
\* then processDocument is called and not awaited.
ReprocessDocument(tenantId, d, r) ==
  /\ d \in DOMAIN documents /\ documents[d].tenant_id = tenantId
  /\ RunFree(r)
  /\ documents' = [documents EXCEPT ![d] =
                     [@ EXCEPT !.status = "pending", !.version = @ + 1,
                               !.error_message = "NULL"]]
  /\ runs' = [runs EXCEPT ![r] =
                [IdleRun EXCEPT !.pc = "select", !.documentId = d,
                                !.version = documents[d].version + 1]]
  /\ UNCHANGED <<agents, collections, agent_collections, embeddings, chatVars,
                 rq, dq, fnVars>>

\* processDocument: SELECT * FROM documents WHERE id = $1.
RunSelect(r) ==
  /\ runs[r].pc = "select"
  /\ runs' = [runs EXCEPT ![r] =
                [@ EXCEPT !.pc = IF runs[r].documentId \in DOMAIN documents
                                   THEN "processing" ELSE "catch"]]
  /\ UNCHANGED <<storeVars, chatVars, rq, dq, fnVars>>

\* processDocument: UPDATE documents SET status = 'processing'.
RunMarkProcessing(r) ==
  /\ runs[r].pc = "processing"
  /\ documents' = SetStatus(runs[r].documentId, "processing")
  /\ runs' = [runs EXCEPT ![r] = [@ EXCEPT !.pc = "extract"]]
  /\ UNCHANGED <<agents, collections, agent_collections, embeddings, chatVars,
                 rq, dq, fnVars>>

\* processDocument: extractText and chunkText; the extraction throws, or
\* yields no text, or the text is cut into chunks.
RunExtract(r) ==
  /\ runs[r].pc = "extract"
  /\ \/ \E n \in 1..MaxChunks :
          runs' = [runs EXCEPT ![r] = [@ EXCEPT !.pc = "delete", !.chunks = n]]
     \/ runs' = [runs EXCEPT ![r] = [@ EXCEPT !.pc = "catch"]]
  /\ UNCHANGED <<storeVars, chatVars, rq, dq, fnVars>>

RunDeleteNothing(r) ==
  /\ runs[r].pc = "delete"
  /\ embeddings' = embeddings
  /\ runs' = [runs EXCEPT ![r] = [@ EXCEPT !.pc = "chunk"]]
  /\ UNCHANGED <<agents, collections, agent_collections, documents, chatVars,
                 rq, dq, fnVars>>

\* processDocument: DELETE FROM embeddings WHERE document_id = $1.
RunDeleteEmbeddings(r) ==
  /\ runs[r].pc = "delete"
  /\ embeddings' = SelectSeq(embeddings,
                             LAMBDA row : row.document_id # runs[r].documentId)
  /\ runs' = [runs EXCEPT ![r] = [@ EXCEPT !.pc = "chunk"]]
  /\ UNCHANGED <<agents, collections, agent_collections, documents, chatVars,
                 rq, dq, fnVars>>

RunChunkStopsOnError(r) ==
  /\ runs[r].pc = "chunk"
  /\ \/ /\ runs[r].documentId \in DOMAIN documents
        /\ embeddings' =
             Append(embeddings,
                    [document_id |-> runs[r].documentId, chunk_index |-> runs[r].i,
                     embedding |-> generateEmbedding(<<>>), written_by |-> r])
        /\ runs' = [runs EXCEPT ![r] =
                      [@ EXCEPT !.i = @ + 1,
                                !.pc = IF runs[r].i + 1 < runs[r].chunks
                                         THEN "chunk" ELSE "complete"]]
     \/ /\ UNCHANGED embeddings
        /\ runs' = [runs EXCEPT ![r] = [@ EXCEPT !.pc = "catch"]]
  /\ UNCHANGED <<agents, collections, agent_collections, documents, chatVars,
                 rq, dq, fnVars>>

\* processDocument: one turn of the chunk loop; the embedding call or the
\* INSERT may throw, and the loop goes on with the next chunk.
RunChunk(r) ==
  /\ runs[r].pc = "chunk"
  /\ \/ /\ runs[r].documentId \in DOMAIN documents
        /\ embeddings' =
             Append(embeddings,
                    [document_id |-> runs[r].documentId, chunk_index |-> runs[r].i,
                     embedding |-> generateEmbedding(<<>>), written_by |-> r])
     \/ UNCHANGED embeddings
  /\ runs' = [runs EXCEPT ![r] =
                [@ EXCEPT !.i = @ + 1,
                          !.pc = IF runs[r].i + 1 < runs[r].chunks
                                   THEN "chunk" ELSE "complete"]]
  /\ UNCHANGED <<agents, collections, agent_collections, documents, chatVars,
                 rq, dq, fnVars>>

\* processDocument: UPDATE documents SET status = 'completed'.
RunComplete(r) ==
  /\ runs[r].pc = "complete"
  /\ documents' = SetStatus(runs[r].documentId, "completed")
  /\ runs' = [runs EXCEPT ![r] = [@ EXCEPT !.pc = "done"]]
  /\ UNCHANGED <<agents, collections, agent_collections, embeddings, chatVars,
                 rq, dq, fnVars>>

\* processDocument, catch: UPDATE documents SET status = 'failed', and the
\* error is thrown again.
RunCatch(r) ==
  /\ runs[r].pc = "catch"
  /\ documents' =
       IF runs[r].documentId \in DOMAIN documents
         THEN [documents EXCEPT ![runs[r].documentId] =
                 [@ EXCEPT !.status = "failed", !.error_message = "error"]]
         ELSE documents
  /\ runs' = [runs EXCEPT ![r] = [@ EXCEPT !.pc = "done"]]
  /\ UNCHANGED <<agents, collections, agent_collections, embeddings, chatVars,
                 rq, dq, fnVars>>

\* PUT /collections/:id with is_global.
SetCollectionGlobal(tenantId, c, isGlobal) ==
  /\ c \in DOMAIN collections /\ collections[c].tenant_id = tenantId
  /\ collections' = [collections EXCEPT ![c] = [@ EXCEPT !.is_global = isGlobal]]
  /\ UNCHANGED <<agents, agent_collections, documents, embeddings, chatVars,
                 ingestVars, fnVars>>

(* ------------------ retrieval beside ingestion, by steps -------------- *)
\* The selected rows in table order, and in the opposite order.
HeapOrder(rowSet) ==
  [p \in 1..Cardinality(rowSet) |->
     CHOOSE i \in rowSet : Cardinality({j \in rowSet : j < i}) = p - 1]

ReverseHeapOrder(rowSet) ==
  [p \in 1..Cardinality(rowSet) |->
     CHOOSE i \in rowSet : Cardinality({j \in rowSet : j > i}) = p - 1]

\* A retrieval call is made: retrieveContext, or retrieveContextWithPgVector
\* with the extension present.
RetrieveStart(path, agentId, tenantId) ==
  /\ IF rq = None THEN TRUE ELSE rq.pc = "done"
  /\ rq' = [pc |-> "collections", path |-> path, agentId |-> agentId,
            tenantId |-> tenantId, collectionIds |-> {}, evidence |-> <<>>]
  /\ UNCHANGED <<storeVars, chatVars, runs, dq, fnVars>>

\* The collections query (rag.ts 154-168, 260-273).
RetrieveCollections ==
  /\ rq # None /\ rq.pc = "collections"
  /\ LET collectionIds == CollectionsQuery(rq.agentId, rq.tenantId)
     IN  rq' = [rq EXCEPT !.collectionIds = collectionIds,
                          !.pc = IF collectionIds = {} THEN "done" ELSE "embeddings"]
  /\ UNCHANGED <<storeVars, chatVars, runs, dq, fnVars>>

\* The embeddings query and the ranking (rag.ts 170-231, 275-306).
RetrieveEmbeddings ==
  /\ rq # None /\ rq.pc = "embeddings"
  /\ LET queryEmbedding == generateEmbedding(<<>>)
         rowSet == EmbeddingsQuery(rq.collectionIds)
     IN  \E o \in {HeapOrder(rowSet), ReverseHeapOrder(rowSet)} :
           rq' = [rq EXCEPT !.pc = "done",
                            !.evidence =
                              IF rowSet = {} THEN <<>>
                              ELSE IF rq.path = "linear"
                                THEN RankLinear(queryEmbedding, o, 5)
                              ELSE RankPgVector(queryEmbedding, o, 5)]
  /\ UNCHANGED <<storeVars, chatVars, runs, dq, fnVars>>

\* The uploads that are made: d1 into the linked collection c1; d2 into
\* c1, into the unlinked collection c2, or by the other tenant into c3.
UploadRequests ==
  {[tenantId |-> "t1", documentId |-> "d1", collectionId |-> "c1"],
   [tenantId |-> "t1", documentId |-> "d2", collectionId |-> "c1"],
   [tenantId |-> "t1", documentId |-> "d2", collectionId |-> "c2"],
   [tenantId |-> "t2", documentId |-> "d2", collectionId |-> "c3"]}

InitIngest ==
  /\ agents = [a \in AgentIds |-> DefaultAgent]
  /\ collections = FixtureCollections
  /\ agent_collections = FixtureLinks
  /\ documents = <<>>
  /\ embeddings = <<>>
  /\ decision_logs = <<>>
  /\ chat_messages = <<>>
  /\ turns = <<>>
  /\ runs = [r \in RunIds |-> IdleRun]
  /\ rq = None
  /\ dq = None
  /\ fnIn = None
  /\ fnOut = None
  /\ pgOut = None

NextIngest ==
  \/ \E u \in UploadRequests, r \in RunIds :
       UploadDocument(u.tenantId, u.documentId, u.collectionId, r)
  \/ \E tenantId \in TenantIds, d \in DocIds, r \in RunIds :
       ReprocessDocument(tenantId, d, r)
  \/ \E r \in RunIds : RunSelect(r)
  \/ \E r \in RunIds : RunMarkProcessing(r)
  \/ \E r \in RunIds : RunExtract(r)
  \/ \E r \in RunIds : RunDeleteEmbeddings(r)
  \/ \E r \in RunIds : RunChunk(r)
  \/ \E r \in RunIds : RunComplete(r)
  \/ \E r \in RunIds : RunCatch(r)
  \/ \E isGlobal \in BOOLEAN : SetCollectionGlobal("t1", "c2", isGlobal)
  \/ \E path \in {"linear", "pgvector"} : RetrieveStart(path, "a1", "t1")
  \/ RetrieveCollections
  \/ RetrieveEmbeddings

SpecIngest == InitIngest /\ [][NextIngest]_vars

(* ---------------------- retrieval and status claims ------------------- *)
Qualifies(c, agentId, tenantId) ==
  /\ c \in DOMAIN collections
  /\ collections[c].tenant_id = tenantId
  /\ (<<agentId, c>> \in agent_collections \/ collections[c].is_global)

CollectionsStep == rq # None /\ rq.pc = "collections" /\ rq'.pc # "collections"

EmbeddingsStep == rq # None /\ rq.pc = "embeddings" /\ rq'.pc = "done"

\* C8: every evidence item a retrieval returns for (agent, tenant) comes
\* from a document that is completed at the moment of the embeddings query
\* and lies in a collection that, at the moment of the collections query,
\* belonged to the tenant and was linked to the agent or global.
C8_EvidenceScope ==
  [][/\ CollectionsStep =>
          \A c \in rq'.collectionIds : Qualifies(c, rq.agentId, rq.tenantId)
     /\ EmbeddingsStep =>
          \A k \in DOMAIN rq'.evidence :
            LET d == rq'.evidence[k].document_id
            IN  /\ d \in DOMAIN documents
                /\ documents[d].status = "completed"
                /\ documents[d].collection_id \in rq.collectionIds]_vars

HasRows(d) == \E i \in DOMAIN embeddings : embeddings[i].document_id = d

\* A retrieval returned fragments of d1 while d2 had fragments in the store
\* and was left out: d2 was still processing in the linked collection, or lay
\* in the unlinked collection c2, or in the other tenant's global collection.
C8_Witness ==
  /\ rq # None /\ rq.pc = "done"
  /\ Len(rq.evidence) >= 1
  /\ \A k \in DOMAIN rq.evidence : rq.evidence[k].document_id = "d1"
  /\ "d2" \in DOMAIN documents
  /\ HasRows("d2")
  /\ \/ documents["d2"].collection_id = "c1" /\ documents["d2"].status = "processing"
     \/ /\ documents["d2"].collection_id = "c2" /\ documents["d2"].status = "completed"
        /\ ~collections["c2"].is_global
     \/ documents["d2"].collection_id = "c3" /\ documents["d2"].status = "completed"

AllowedStatusChange(d) ==
  LET from == documents[d].status
      to == documents'[d].status
  IN  \/ to = from
      \/ from = "pending" /\ to = "processing"
      \/ from = "processing" /\ to \in {"completed", "failed"}
      \/ to = "pending" /\ documents'[d].version = documents[d].version + 1

\* C10: over any sequence of upload, re-process and ingestion steps a
\* document's status changes only pending -> processing, processing ->
\* completed, processing -> failed, or to pending by a re-process request.
C10_StatusTransitions ==
  [][\A d \in DOMAIN documents \cap DOMAIN documents' : AllowedStatusChange(d)]_vars

\* A document goes from completed to failed, or from failed to completed,
\* in one step.
C10_NoFlip ==
  [][\A d \in DOMAIN documents \cap DOMAIN documents' :
       /\ ~(documents[d].status = "completed" /\ documents'[d].status = "failed")
       /\ ~(documents[d].status = "failed" /\ documents'[d].status = "completed")]_vars

\* With a single processDocument call made, statuses change as stated.
SingleRunStatusTransitions ==
  [][runs["r2"].pc = "idle" /\ runs'["r2"].pc = "idle" =>
       \A d \in DOMAIN documents \cap DOMAIN documents' : AllowedStatusChange(d)]_vars

(* -------------------------- re-processing claims ---------------------- *)
RowsOf(d) == {i \in DOMAIN embeddings : embeddings[i].document_id = d}

\* Each re-process request raises the version by exactly 1, and the run it
\* starts has not begun its extraction.
ReprocessRaisesVersion ==
  [][\A d \in DOMAIN documents \cap DOMAIN documents' :
       documents'[d].version # documents[d].version =>
         /\ documents'[d].version = documents[d].version + 1
         /\ \E r \in RunIds :
              /\ runs[r].pc = "idle" /\ runs'[r].pc = "select"
              /\ runs'[r].documentId = d
              /\ runs'[r].version = documents'[d].version]_vars

\* C11: whenever a document is completed, every stored fragment of it was
\* written by the ingestion run started for its current version.
C11_FragmentsOfCurrentVersion ==
  \A d \in DOMAIN documents :
    documents[d].status = "completed" =>
      \A i \in RowsOf(d) : runs[embeddings[i].written_by].version = documents[d].version

\* A run has deleted the document's fragments and has not finished its
\* inserts.
InReplacementGap(d) ==
  \E r \in RunIds : runs[r].documentId = d /\ runs[r].pc = "chunk"

\* C12: a retrieval never reads a document as completed while a run is
\* between the bulk delete and the end of the inserts of that document.
C12_NoGapObserved ==
  [][EmbeddingsStep =>
       \A d \in DOMAIN documents :
         (documents[d].collection_id \in rq.collectionIds
          /\ documents[d].status = "completed") => ~InReplacementGap(d)]_vars

\* The same statement while a single processDocument call has been made for
\* each document.
SingleRunNoGapObserved ==
  [][(EmbeddingsStep
      /\ \A r1, r2 \in RunIds :
           (r1 # r2 /\ runs[r1].pc # "idle" /\ runs[r2].pc # "idle") =>
             runs[r1].documentId # runs[r2].documentId) =>
       \A d \in DOMAIN documents :
         (documents[d].collection_id \in rq.collectionIds
          /\ documents[d].status = "completed") => ~InReplacementGap(d)]_vars

(* ------------------------ ingestion error claims ---------------------- *)
CatchStep(r) == runs[r].pc = "catch" /\ runs'[r].pc = "done"

\* A run that ends in its catch block leaves the document failed with the
\* error message attached.
FailedWithMessage ==
  [][\A r \in RunIds :
       (CatchStep(r) /\ runs[r].documentId \in DOMAIN documents) =>
         /\ documents'[runs[r].documentId].status = "failed"
         /\ documents'[runs[r].documentId].error_message # "NULL"]_vars

\* C13: a failed document holds no fragments, neither of the failed attempt
\* nor of earlier attempts (a new attempt can be started at any time).
C13_FailedHoldsNoFragments ==
  \A d \in DOMAIN documents : documents[d].status = "failed" => RowsOf(d) = {}

\* A second attempt, started after the first had completed, failed and left
\* the fragments of the first in the store.
FailedKeepsEarlierFragments ==
  /\ "d1" \in DOMAIN documents
  /\ documents["d1"].status = "failed"
  /\ documents["d1"].version = 2
  /\ runs["r1"].pc = "done" /\ runs["r2"].pc = "done"
  /\ runs["r2"].documentId = "d1" /\ runs["r2"].chunks = 0
  /\ RowsOf("d1") # {}
  /\ \A i \in RowsOf("d1") : embeddings[i].written_by = "r1"

ChunkStep(r) == runs[r].pc = "chunk" /\ runs'[r] # runs[r]

CompleteStep(r) == runs[r].pc = "complete" /\ runs'[r].pc = "done"

\* C14: a fragment that cannot be embedded or stored is skipped: the loop
\* goes on with the next chunk, a stored fragment carries the zero-based
\* index of its chunk, the document is not failed, and the run ends by
\* writing completed.
C14_FragmentFailureNotFatal ==
  [][\A r \in RunIds :
       /\ ChunkStep(r) =>
            /\ runs'[r].i = runs[r].i + 1
            /\ runs'[r].pc = IF runs'[r].i < runs[r].chunks THEN "chunk" ELSE "complete"
            /\ documents' = documents
            /\ \/ embeddings' = embeddings
               \/ /\ Len(embeddings') = Len(embeddings) + 1
                  /\ SubSeq(embeddings', 1, Len(embeddings)) = embeddings
                  /\ embeddings'[Len(embeddings')].document_id = runs[r].documentId
                  /\ embeddings'[Len(embeddings')].chunk_index = runs[r].i
                  /\ runs[r].i \in 0..(runs[r].chunks - 1)
       /\ (CompleteStep(r) /\ runs[r].documentId \in DOMAIN documents) =>
            documents'[runs[r].documentId].status = "completed"]_vars

\* A run of two chunks lost its first fragment, stored the second under
\* index 1 and completed the document.
C14_Witness ==
  /\ runs["r1"].pc = "done" /\ runs["r1"].chunks = 2 /\ runs["r1"].i = 2
  /\ runs["r2"].pc = "idle"
  /\ documents[runs["r1"].documentId].status = "completed"
  /\ Cardinality(RowsOf(runs["r1"].documentId)) = 1
  /\ \A i \in RowsOf(runs["r1"].documentId) : embeddings[i].chunk_index = 1

(* ------------------------ chat error-handling claims ------------------ *)
\* C15: a retrieval that fails hands the turn an empty evidence list; the
\* turn goes on to the mode gate, is blocked with the no-evidence reason for
\* INTERNAL and goes on to the completion call for HYBRID and FREE; the
\* retrieval error never fails the turn.
C15_RetrievalDegrades ==
  \A t \in TurnIds :
    (Started(t) /\ turns[t].degraded) =>
      /\ turns[t].evidence = <<>>
      /\ turns[t].pc = "failed" => TraceHas(t, "complete")
      /\ TraceHas(t, "mode") =>
           IF turns[t].agent.mode = "INTERNAL"
             THEN /\ turns[t].pc = "done" /\ turns[t].blocked
                  /\ turns[t].blockReason = NoEvidenceReason
                  /\ ~TraceHas(t, "complete")
             ELSE /\ ~turns[t].blocked
                  /\ ReachesProvider(t)

\* With fragments scoring 0.6 in the store, a failed retrieval left an
\* INTERNAL turn blocked for lack of evidence, or a HYBRID or FREE turn
\* answered without evidence.
C15_Witness ==
  /\ \E i \in DOMAIN embeddings :
       embeddings[i].document_id = "d1" /\ embeddings[i].embedding = V60
  /\ Started("u1") /\ turns["u1"].degraded /\ turns["u1"].pc = "done"
  /\ Started("u2") /\ ~turns["u2"].degraded /\ Len(turns["u2"].evidence) > 0
  /\ turns["u2"].pc = "done"
  /\ turns["u1"].agent.mode = "INTERNAL" => turns["u1"].blockReason = NoEvidenceReason
  /\ turns["u1"].agent.mode # "INTERNAL" => turns["u1"].tokensUsed > 0

LogCalls(trace) == Len(SelectSeq(trace, IsLog))

LogStep(t) == LogCalls(turns'[t].trace) > LogCalls(turns[t].trace)

\* C16: the step that calls the decision logger leaves the turn with the
\* same response, blocked flag, block reason and evidence, and the store
\* with the same cost and messages, whether the insert succeeded (the log is
\* one row longer) or threw (the log is unchanged).
C16_LogFailureHarmless ==
  [][\A t \in TurnIds :
       LogStep(t) =>
         /\ decision_logs' = decision_logs \/ Len(decision_logs') = Len(decision_logs) + 1
         /\ agents' = agents
         /\ chat_messages' = chat_messages
         /\ turns'[t].pc = "done"
         /\ turns'[t].blockReason = ExpectedReason(t)'
         /\ turns'[t].blocked <=> turns'[t].blockReason # NoReason
         /\ turns'[t].evidence = turns[t].evidence
         /\ turns'[t].tokensUsed = turns[t].tokensUsed
         /\ turns'[t].blocked => turns'[t].tokensUsed = 0]_vars

\* A turn got its answer, its cost and its messages were recorded, and the
\* insert of its decision row threw.
C16_Witness ==
  /\ turns["u1"].pc = "done" /\ turns["u1"].entry = "chat"
  /\ ~turns["u1"].blocked
  /\ turns["u1"].tokensUsed > 0
  /\ LogCalls(turns["u1"].trace) = 1
  /\ turns["u2"].pc = "idle"
  /\ decision_logs = <<>>
  /\ Len(chat_messages) = 2
  /\ agents["a1"].cost_used_today = EstimatedCost(turns["u1"].tokensUsed)

(* --------------------------- decision log claims --------------------- *)
\* C17: every turn that returns a response, allowed or blocked, on any
\* entry point, has called the decision logger exactly once.
C17_LoggedOnce ==
  \A t \in TurnIds : turns[t].pc = "done" => LogCalls(turns[t].trace) = 1

\* The same statement for the turns of chat alone.
ChatLoggedOnce ==
  \A t \in TurnIds :
    (turns[t].entry = "chat" /\ turns[t].pc = "done") => LogCalls(turns[t].trace) = 1

\* The row a chat turn writes says blocked with the returned block reason,
\* or allowed.
ChatLogRowMatches ==
  [][\A t \in TurnIds :
       (LogStep(t) /\ Len(decision_logs') = Len(decision_logs) + 1) =>
         LET row == decision_logs'[Len(decision_logs')]
         IN  /\ SubSeq(decision_logs', 1, Len(decision_logs)) = decision_logs
             /\ row.agent_id = turns'[t].agentId
             /\ row.input_preview = turns'[t].message
             /\ IF turns'[t].blocked
                  THEN row.decision = "blocked" /\ row.reason = turns'[t].blockReason
                  ELSE row.decision = "allowed" /\ TraceHas(t, "complete")]_vars

\* C18: the decision log only grows: every step leaves the rows written so
\* far in place and unchanged.
C18_LogOnlyGrows == [][IsPrefix(decision_logs, decision_logs')]_vars

\* Two turns were logged, the first blocked by the kill switch, and the
\* kill switch was released and the cost counter reset afterwards.
C18_Witness ==
  /\ Len(decision_logs) = 2
  /\ decision_logs[1].decision = "blocked" /\ decision_logs[1].reason = KillReason
  /\ decision_logs[2].decision = "allowed"
  /\ ~agents["a1"].kill_switch
  /\ agents["a1"].cost_used_today = 0
  /\ \E t \in TurnIds : turns[t].pc = "done" /\ turns[t].tokensUsed > 0


(* ----------------------- completion failure, blocks ------------------- *)
IsComplete(step) == step = "complete"

CompletionCalls(trace) == Len(SelectSeq(trace, IsComplete))

CompletionFails(t) ==
  /\ turns[t].entry = "chat"
  /\ turns[t].pc = "complete"
  /\ turns'[t].pc = "failed"

MessagesOf(t) ==
  {i \in DOMAIN chat_messages : chat_messages[i].conversation_id = t}

BlockStep(t) ==
  /\ turns[t].result = None
  /\ turns'[t].result # None
  /\ turns'[t].result.blocked

\* C22: a governance block returns a response (chat does not throw) with
\* blocked = true, a non-empty block reason, tokens_used = 0 and no evidence
\* items, and the blocking step changes neither the agent's cost_used_today
\* nor the stored messages.
C22_BlockIsNormalResponse ==
  [][\A t \in TurnIds :
       /\ (turns[t].pc # "done" /\ turns'[t].pc = "done" /\ turns'[t].blocked)
            => BlockStep(t)
       /\ BlockStep(t) =>
            /\ turns'[t].pc = "done"
            /\ turns'[t].result.blockReason.text # ""
            /\ turns'[t].result.tokensUsed = 0
            /\ turns'[t].result.evidence = <<>>
            /\ agents' = agents
            /\ chat_messages' = chat_messages]_vars

\* A mode block of a turn that had retrieved evidence of low confidence.
C22_Witness ==
  \E t \in TurnIds :
    /\ turns[t].pc = "done"
    /\ turns[t].result # None
    /\ turns[t].result.blocked
    /\ turns[t].result.blockReason = LowConfidenceReason
    /\ turns[t].evidence # <<>>

\* C23: from the moment kill_switch is true, no completion call is issued for
\* the agent, in-flight turns included: every step that issues a completion
\* call is taken while the agent's kill_switch is false.
C23_NoCompletionWhileKilled ==
  [][\A t \in TurnIds :
       CompletionCalls(turns'[t].trace) > CompletionCalls(turns[t].trace)
         => ~agents[turns[t].agentId].kill_switch]_vars

\* What the code guarantees: a completion call is issued only by a turn whose
\* own read of the agent row showed kill_switch = false.
ChatKillSwitchAsRead ==
  \A t \in TurnIds :
    TraceHas(t, "complete") => Started(t) /\ ~turns[t].agent.kill_switch

(* ------------- specification: concurrent turns, no reset -------------- *)
\* One HYBRID agent with retrieval enabled and the default cost limit; two
\* turns run concurrently and nobody administers the agent.
InitCost ==
  /\ agents = [a \in AgentIds |-> DefaultAgent]
  /\ collections = FixtureCollections
  /\ agent_collections = FixtureLinks
  /\ documents = ChatDocuments
  /\ embeddings = ChatTable(<<V60>>)
  /\ decision_logs = <<>>
  /\ chat_messages = <<>>
  /\ turns = [t \in TurnIds |-> IdleTurn]
  /\ runs = <<>>
  /\ rq = None
  /\ dq = None
  /\ fnIn = None
  /\ fnOut = None
  /\ pgOut = None

NextCost ==
  \/ \E t \in TurnIds, a \in AgentIds, m \in ChatMessages : ChatBegin(t, a, m)
  \/ \E t \in TurnIds : ChatRetrieve(t)
  \/ \E t \in TurnIds : ChatModeGate(t)
  \/ \E t \in TurnIds : ChatComplete(t)
  \/ \E t \in TurnIds : ChatRecordCost(t)
  \/ \E t \in TurnIds : ChatSaveMessages(t)
  \/ \E t \in TurnIds : ChatLogAllowed(t)
  \/ \E t \in TurnIds, a \in AgentIds, m \in ChatMessages : ChatWithDocumentBegin(t, a, m)
  \/ \E t \in TurnIds : ChatWithDocumentComplete(t)

SpecCost == InitCost /\ [][NextCost]_vars

\* The estimated cost of the completion the turn has obtained so far.
ObtainedCost(t) ==
  IF turns[t].pc \in {"cost", "save", "log", "done"} /\ TraceHas(t, "complete")
    THEN EstimatedCost(turns[t].tokensUsed) ELSE 0

\* The estimated cost the turn has recorded so far.
RecordedCost(t) ==
  IF turns[t].entry = "chat" /\ turns[t].pc \in {"save", "log", "done"}
     /\ TraceHas(t, "complete")
    THEN EstimatedCost(turns[t].tokensUsed) ELSE 0

Settled(t) == turns[t].pc \in {"idle", "done", "failed"}

\* C19: once the concurrent turns have ended, cost_used_today is its
\* starting value plus the estimated costs of all turns that obtained a
\* completion.
C19_CostIsSumOfCompletions ==
  (\A t \in TurnIds : Settled(t)) =>
    agents["a1"].cost_used_today = 0 + ObtainedCost("u1") + ObtainedCost("u2")

\* At every moment the counter is the sum of the increments made by the
\* turns of chat: none is lost, none is made twice, nothing else changes it.
ChatCostIsSumOfIncrements ==
  agents["a1"].cost_used_today = 0 + RecordedCost("u1") + RecordedCost("u2")

\* Two turns of chat held their completions at the same time and both
\* increments are in the counter.
ChatConcurrentIncrements ==
  /\ turns["u1"].entry = "chat" /\ turns["u2"].entry = "chat"
  /\ turns["u1"].pc = "done" /\ turns["u2"].pc = "done"
  /\ turns["u1"].tokensUsed > 0 /\ turns["u2"].tokensUsed > 0
  /\ agents["a1"].cost_used_today =
       EstimatedCost(turns["u1"].tokensUsed) + EstimatedCost(turns["u2"].tokensUsed)

(* ---------- specification: processDocument invoked again -------------- *)
\* A re-process request made when no processDocument call is in progress.
ReprocessAfterRun(tenantId, d, r) ==
  /\ \A q \in RunIds : runs[q].pc \in {"idle", "done"}
  /\ ReprocessDocument(tenantId, d, r)

NextReingest ==
  \/ \E u \in UploadRequests, r \in RunIds :
       UploadDocument(u.tenantId, u.documentId, u.collectionId, r)
  \/ \E tenantId \in TenantIds, d \in DocIds, r \in RunIds :
       ReprocessAfterRun(tenantId, d, r)
  \/ \E r \in RunIds : RunSelect(r)
  \/ \E r \in RunIds : RunMarkProcessing(r)
  \/ \E r \in RunIds : RunExtract(r)
  \/ \E r \in RunIds : RunDeleteEmbeddings(r)
  \/ \E r \in RunIds : RunChunk(r)
  \/ \E r \in RunIds : RunComplete(r)
  \/ \E r \in RunIds : RunCatch(r)

SpecReingest == InitIngest /\ [][NextReingest]_vars

\* r is the latest processDocument call made for its document.
LatestRun(r) ==
  \A q \in RunIds :
    runs[q].documentId = runs[r].documentId => runs[q].version <= runs[r].version

\* r ran to its end without an error in extraction.
RanToCompletion(r) ==
  runs[r].pc = "done" /\ runs[r].chunks > 0 /\ runs[r].i = runs[r].chunks

\* C20: processDocument invoked again on a document, after a completed or a
\* failed run, leaves it completed with the fragments of that one
\* invocation: none twice, none left from the earlier attempt, and all of
\* its chunks when no fragment was skipped.
C20_Idempotent ==
  \A r \in RunIds :
    (RanToCompletion(r) /\ LatestRun(r)) =>
      LET d == runs[r].documentId
      IN  /\ documents[d].status = "completed"
          /\ \A i \in RowsOf(d) :
               /\ embeddings[i].written_by = r
               /\ embeddings[i].chunk_index \in 0..(runs[r].chunks - 1)
          /\ \A i, j \in RowsOf(d) :
               embeddings[i].chunk_index = embeddings[j].chunk_index => i = j

\* The document was ingested with two fragments, re-processed, and holds
\* the two fragments of the second run.
C20_Witness ==
  /\ RanToCompletion("r1") /\ RanToCompletion("r2")
  /\ runs["r1"].documentId = "d1" /\ runs["r2"].documentId = "d1"
  /\ runs["r1"].chunks = 2 /\ runs["r2"].chunks = 2
  /\ documents["d1"].version = 2 /\ documents["d1"].status = "completed"
  /\ {embeddings[i].chunk_index : i \in RowsOf("d1")} = {0, 1}
  /\ Cardinality(RowsOf("d1")) = 2

(* ------------- specification: a document deleted beside a run --------- *)
\* DELETE /documents/:id in progress: position, the document, the ids deleted
\* so far, and the processDocument calls that were in their chunk loop when
\* the document row went away.
IdleDelete == [pc |-> "idle", documentId |-> "none", deleted |-> {}, inflight |-> {}]

\* DELETE /documents/:id: SELECT * FROM documents WHERE id = $1 AND
\* tenant_id = $2; 404 when there is no such row.
DeleteSelect(tenantId, d) ==
  /\ dq.pc \in {"idle", "done"}
  /\ dq' = [dq EXCEPT !.documentId = d,
                      !.pc = IF d \in DOMAIN documents /\ documents[d].tenant_id = tenantId
                               THEN "embeddings" ELSE "done"]
  /\ UNCHANGED <<storeVars, chatVars, runs, rq, fnVars>>

\* DELETE /documents/:id: DELETE FROM embeddings WHERE document_id = $1.
DeleteEmbeddings ==
  /\ dq.pc = "embeddings"
  /\ embeddings' = SelectSeq(embeddings, LAMBDA row : row.document_id # dq.documentId)
  /\ dq' = [dq EXCEPT !.pc = "document"]
  /\ UNCHANGED <<agents, collections, agent_collections, documents, chatVars,
                 runs, rq, fnVars>>

DeleteDocumentNoCascade ==
  /\ dq.pc = "document"
  /\ documents' = [d \in DOMAIN documents \ {dq.documentId} |-> documents[d]]
  /\ embeddings' = embeddings
  /\ dq' = [dq EXCEPT !.pc = "done", !.deleted = @ \cup {dq.documentId},
                      !.inflight = {r \in RunIds : /\ runs[r].documentId = dq.documentId
                                                   /\ runs[r].pc = "chunk"}]
  /\ UNCHANGED <<agents, collections, agent_collections, chatVars, runs, rq, fnVars>>

\* DELETE /documents/:id: DELETE FROM documents WHERE id = $1; the rows of
\* embeddings that reference the document go with it (ON DELETE CASCADE).
DeleteDocument ==
  /\ dq.pc = "document"
  /\ documents' = [d \in DOMAIN documents \ {dq.documentId} |-> documents[d]]
  /\ embeddings' = SelectSeq(embeddings, LAMBDA row : row.document_id # dq.documentId)
  /\ dq' = [dq EXCEPT !.pc = "done", !.deleted = @ \cup {dq.documentId},
                      !.inflight = {r \in RunIds : /\ runs[r].documentId = dq.documentId
                                                   /\ runs[r].pc = "chunk"}]
  /\ UNCHANGED <<agents, collections, agent_collections, chatVars, runs, rq, fnVars>>

\* An upload: the document id is a fresh uuid, never one used before.
UploadFresh(tenantId, d, c, r) ==
  /\ d \notin dq.deleted
  /\ UploadDocument(tenantId, d, c, r)

InitDelete ==
  /\ agents = [a \in AgentIds |-> DefaultAgent]
  /\ collections = FixtureCollections
  /\ agent_collections = FixtureLinks
  /\ documents = <<>>
  /\ embeddings = <<>>
  /\ decision_logs = <<>>
  /\ chat_messages = <<>>
  /\ turns = <<>>
  /\ runs = [r \in RunIds |-> IdleRun]
  /\ rq = None
  /\ dq = IdleDelete
  /\ fnIn = None
  /\ fnOut = None
  /\ pgOut = None

NextDelete ==
  \/ \E d \in DocIds, r \in RunIds : UploadFresh("t1", d, "c1", r)
  \/ \E d \in DocIds, r \in RunIds : ReprocessDocument("t1", d, r)
  \/ \E r \in RunIds : RunSelect(r)
  \/ \E r \in RunIds : RunMarkProcessing(r)
  \/ \E r \in RunIds : RunExtract(r)
  \/ \E r \in RunIds : RunDeleteEmbeddings(r)
  \/ \E r \in RunIds : RunChunk(r)
  \/ \E r \in RunIds : RunComplete(r)
  \/ \E r \in RunIds : RunCatch(r)
  \/ \E tenantId \in TenantIds, d \in DocIds : DeleteSelect(tenantId, d)
  \/ DeleteEmbeddings
  \/ DeleteDocument
  \/ RetrieveStart("linear", "a1", "t1")
  \/ RetrieveCollections
  \/ RetrieveEmbeddings

SpecDelete == InitDelete /\ [][NextDelete]_vars

NoRowOfDeleted ==
  \A d \in dq.deleted :
    /\ d \notin DOMAIN documents
    /\ \A i \in DOMAIN embeddings : embeddings[i].document_id # d

\* C24: once a document delete has completed, the store holds, after every
\* later step, no document row and no fragment of that document, whatever a
\* processDocument call for it does afterwards, and every retrieval whose embeddings query runs after the
\* delete returns no fragment of it.
C24_DeletedStaysDeleted ==
  [][/\ NoRowOfDeleted'
     /\ EmbeddingsStep =>
          \A p \in DOMAIN rq'.evidence : rq'.evidence[p].document_id \notin dq.deleted]_vars

\* A processDocument call was in its chunk loop when the document was
\* deleted, has since gone through its remaining inserts and its status
\* update, and a retrieval has run after that.
C24_Witness ==
  /\ \E r \in dq.inflight :
       /\ runs[r].documentId \in dq.deleted
       /\ runs[r].pc = "done"
       /\ runs[r].i = MaxChunks
  /\ rq # None
  /\ rq.pc = "done"

(* --------------------- specification: chunkText ----------------------- *)
MaxTextLen == 6
MaxChunkSize == 5

\* A letter, the sentence terminator, the line break.
TextAlphabet == {"a", ".", "\n"}

Texts == SeqsUpTo(TextAlphabet, MaxTextLen)

\* Positions in a text are counted from 0, as in the code: the character at
\* position k of text is text[k + 1].
Largest(S) == CHOOSE k \in S : \A j \in S : j <= k

\* String.prototype.lastIndexOf(ch, fromIndex): the last position <= fromIndex
\* that holds ch, or -1.
LastIndexOf(text, ch, fromIndex) ==
  LET hits == {k \in 0..(Len(text) - 1) : k <= fromIndex /\ text[k + 1] = ch}
  IN  IF hits = {} THEN -1 ELSE Largest(hits)

\* String.prototype.slice(start, end) for 0 <= start.
StringSlice(text, start, end) ==
  SubSeq(text, start + 1, IF end < Len(text) THEN end ELSE Len(text))

IsWhiteSpace(c) == c \in {" ", "\n"}

\* String.prototype.trim().
Trim(s) ==
  LET inked == {k \in 1..Len(s) : ~IsWhiteSpace(s[k])}
  IN  IF inked = {} THEN <<>>
      ELSE SubSeq(s, CHOOSE k \in inked : \A j \in inked : k <= j, Largest(inked))

\* The end of the window that starts at start (utils/index.ts 120-131).
WindowEnd(text, chunkSize, start) ==
  LET end == start + chunkSize
  IN  IF end < Len(text)
        THEN LET lastPeriod == LastIndexOf(text, ".", end)
                 lastNewline == LastIndexOf(text, "\n", end)
                 breakPoint == IF lastPeriod > lastNewline THEN lastPeriod
                               ELSE lastNewline
             IN  IF 2 * breakPoint > 2 * start + chunkSize
                   THEN breakPoint + 1 ELSE end
        ELSE end

\* The start of the next window (utils/index.ts 134-135).
NextStart(end, chunkSize, overlap, start) ==
  IF end - overlap < 0 THEN 0 ELSE end - overlap

NonEmpty(chunk) == Len(chunk) > 0

\* chunkText is called: start = 0, chunks = [].
InitChunk ==
  /\ \E text \in Texts, chunkSize \in 1..MaxChunkSize :
       \E overlap \in 0..(chunkSize - 1) :
         fnIn = [text |-> text, chunkSize |-> chunkSize, overlap |-> overlap]
  /\ fnOut = [pc |-> "loop", start |-> 0, end |-> 0, chunks |-> <<>>]
  /\ pgOut = None
  /\ agents = <<>>
  /\ collections = <<>>
  /\ agent_collections = {}
  /\ documents = <<>>
  /\ embeddings = <<>>
  /\ decision_logs = <<>>
  /\ chat_messages = <<>>
  /\ turns = <<>>
  /\ runs = <<>>
  /\ rq = None
  /\ dq = None

\* One turn of the while loop (utils/index.ts 119-136). A call is followed
\* for Len(text) + 1 windows: windows with ascending starts are at most
\* Len(text).
ChunkTextIteration ==
  /\ fnOut.pc = "loop"
  /\ fnOut.start < Len(fnIn.text)
  /\ Len(fnOut.chunks) <= Len(fnIn.text)
  /\ LET end == WindowEnd(fnIn.text, fnIn.chunkSize, fnOut.start)
     IN  fnOut' = [fnOut EXCEPT
                     !.chunks = Append(@, Trim(StringSlice(fnIn.text, fnOut.start, end))),
                     !.end = end,
                     !.start = NextStart(end, fnIn.chunkSize, fnIn.overlap, fnOut.start)]
  /\ UNCHANGED <<storeVars, chatVars, ingestVars, fnIn, pgOut>>

\* The loop is left and the non-empty chunks are returned
\* (utils/index.ts 119, 139).
ChunkTextReturn ==
  /\ fnOut.pc = "loop"
  /\ fnOut.start >= Len(fnIn.text)
  /\ fnOut' = [fnOut EXCEPT !.pc = "done", !.chunks = SelectSeq(@, NonEmpty)]
  /\ UNCHANGED <<storeVars, chatVars, ingestVars, fnIn, pgOut>>

NextChunk == ChunkTextIteration \/ ChunkTextReturn

SpecChunk == InitChunk /\ [][NextChunk]_vars

IterationStep == fnOut.pc = "loop" /\ fnOut'.pc = "loop" /\ fnOut' # fnOut

\* C26: chunkText terminates for every text, size > 0 and 0 <= overlap < size:
\* every turn of its loop starts the next window strictly after the start of
\* the current one, also when the window was cut at a break point.
C26_WindowsAdvance ==
  [][IterationStep => fnOut'.start > fnOut.start]_vars

\* What the code guarantees: the windows advance whenever the overlap is at
\* most half the size (as with the defaults, 500 and 100).
ChunkTextAdvancesWithSmallOverlap ==
  [][(IterationStep /\ 2 * fnIn.overlap <= fnIn.chunkSize)
       => fnOut'.start > fnOut.start]_vars

\* C27: every fragment chunkText returns has length at most size, whether
\* its window ended at a break point or at the size boundary.
C27_FragmentAtMostSize ==
  fnOut.pc = "done" =>
    \A k \in DOMAIN fnOut.chunks : Len(fnOut.chunks[k]) <= fnIn.chunkSize

\* What the code guarantees: a fragment is at most one character longer.
ChunkTextFragmentAtMostSizePlusOne ==
  fnOut.pc = "done" =>
    \A k \in DOMAIN fnOut.chunks : Len(fnOut.chunks[k]) <= fnIn.chunkSize + 1

(* ------------- specification: ingestion runs to their end ------------- *)
\* The text of the uploaded file, and CHUNK_SIZE and CHUNK_OVERLAP of the
\* deployment (rag.ts 91-93).
IngestInputs ==
  {[text |-> text, chunkSize |-> MaxChunkSize, overlap |-> overlap] :
     text \in {<<"a", "a">>, <<"a", "a", "a", ".", "a", "a">>},
     overlap \in {1, MaxChunkSize - 1}}

\* processDocument: extractText throws or yields no text, or yields the text
\* (rag.ts 81-88).
RunExtractText(r) ==
  /\ runs[r].pc = "extract"
  /\ \/ runs' = [runs EXCEPT ![r] = [@ EXCEPT !.pc = "chunking", !.start = 0,
                                              !.chunks = 0]]
     \/ runs' = [runs EXCEPT ![r] = [@ EXCEPT !.pc = "catch"]]
  /\ UNCHANGED <<storeVars, chatVars, rq, dq, fnVars>>

\* processDocument inside chunkText (rag.ts 93): one turn of its loop, or its
\* return. chunks counts the non-empty chunks, up to Len(text) + 1.
RunChunkText(r) ==
  /\ runs[r].pc = "chunking"
  /\ IF runs[r].start < Len(fnIn.text)
       THEN LET end == WindowEnd(fnIn.text, fnIn.chunkSize, runs[r].start)
                chunk == Trim(StringSlice(fnIn.text, runs[r].start, end))
            IN  runs' = [runs EXCEPT ![r] =
                           [@ EXCEPT !.start = NextStart(end, fnIn.chunkSize,
                                                         fnIn.overlap, runs[r].start),
                                     !.chunks = IF NonEmpty(chunk) /\ @ <= Len(fnIn.text)
                                                  THEN @ + 1 ELSE @]]
       ELSE runs' = [runs EXCEPT ![r] = [@ EXCEPT !.pc = "delete"]]
  /\ UNCHANGED <<storeVars, chatVars, rq, dq, fnVars>>

InitLive ==
  /\ agents = [a \in AgentIds |-> DefaultAgent]
  /\ collections = FixtureCollections
  /\ agent_collections = FixtureLinks
  /\ documents = <<>>
  /\ embeddings = <<>>
  /\ decision_logs = <<>>
  /\ chat_messages = <<>>
  /\ turns = <<>>
  /\ runs = [r \in RunIds |-> IdleRun]
  /\ rq = None
  /\ dq = None
  /\ fnIn \in IngestInputs
  /\ fnOut = None
  /\ pgOut = None

RunStep(r) ==
  \/ RunSelect(r)
  \/ RunMarkProcessing(r)
  \/ RunExtractText(r)
  \/ RunChunkText(r)
  \/ RunDeleteEmbeddings(r)
  \/ RunChunk(r)
  \/ RunComplete(r)
  \/ RunCatch(r)

NextLive ==
  \/ \E r \in RunIds : UploadDocument("t1", "d1", "c1", r)
  \/ \E r \in RunIds : ReprocessDocument("t1", "d1", r)
  \/ \E r \in RunIds : RunSelect(r)
  \/ \E r \in RunIds : RunMarkProcessing(r)
  \/ \E r \in RunIds : RunExtractText(r)
  \/ \E r \in RunIds : RunChunkText(r)
  \/ \E r \in RunIds : RunDeleteEmbeddings(r)
  \/ \E r \in RunIds : RunChunk(r)
  \/ \E r \in RunIds : RunComplete(r)
  \/ \E r \in RunIds : RunCatch(r)

\* Every statement of a started processDocument call is reached when the
\* calls before it return: each call keeps taking its steps.
SpecLive ==
  InitLive /\ [][NextLive]_vars /\ \A r \in RunIds : WF_vars(RunStep(r))

Unsettled(d) ==
  d \in DOMAIN documents /\ documents[d].status \in {"pending", "processing"}

IngestSettled(d) ==
  d \in DOMAIN documents /\ documents[d].status \in {"completed", "failed"}

\* C25: every ingestion run started by an upload or a re-process request
\* ends: a document that is pending or processing is eventually completed
\* or failed.
C25_IngestionEnds ==
  \A d \in DocIds : Unsettled(d) ~> IngestSettled(d)

\* What the code guarantees: the same, when the overlap is at most half the
\* chunk size (as with the defaults).
IngestionEndsWithSmallOverlap ==
  \A d \in DocIds :
    (Unsettled(d) /\ 2 * fnIn.overlap <= fnIn.chunkSize) ~> IngestSettled(d)

(* ------------------------- fragment indexes --------------------------- *)
\* C28: in every reachable state no two stored fragments of one document
\* have the same chunk_index, also when a re-process is requested while an
\* earlier processDocument call for the document is still running.
C28_DistinctChunkIndexes ==
  \A i, j \in DOMAIN embeddings :
    (/\ embeddings[i].document_id = embeddings[j].document_id
     /\ embeddings[i].chunk_index = embeddings[j].chunk_index) => i = j

\* What the code guarantees: two fragments of a document with the same index
\* were written by different processDocument calls.
SameIndexFromDifferentRuns ==
  \A i, j \in DOMAIN embeddings :
    (/\ embeddings[i].document_id = embeddings[j].document_id
     /\ embeddings[i].chunk_index = embeddings[j].chunk_index
     /\ embeddings[i].written_by = embeddings[j].written_by) => i = j

(* ------------- specification: chat with a conversation id ------------- *)
MaxExchanges == 12

\* LIMIT 20 of the history query.
HistoryLimit == 20

ConversationIds == {"v1"}

\* The authenticated callers: req.user.userId, req.tenantId, and an active
\* agent of the caller's tenant.
Callers ==
  {[tenantId |-> "t1", userId |-> "usr1", agentId |-> "a1"],
   [tenantId |-> "t2", userId |-> "usr3", agentId |-> "a2"]}

HistoryAgents ==
  [a \in {"a1", "a2"} |->
     [DefaultAgent EXCEPT !.tenant_id = IF a = "a1" THEN "t1" ELSE "t2",
                          !.mode = "FREE", !.enable_rag = FALSE]]

UsedConversationIds == {chat_messages[i].conversation_id : i \in DOMAIN chat_messages}

\* The positions of a set of rows, in ascending order of created_at.
Ascending(rowSet) == HeapOrder(rowSet)

FirstRows(rows, n) == SubSeq(rows, 1, IF n < Len(rows) THEN n ELSE Len(rows))

LastRows(rows, n) ==
  SubSeq(rows, IF n < Len(rows) THEN Len(rows) - n + 1 ELSE 1, Len(rows))

\* SELECT role, content FROM chat_messages WHERE conversation_id = $1
\*   ORDER BY created_at ASC LIMIT 20
\* The result is the sequence of the positions of the selected rows.
HistoryQuery(conversationId) ==
  FirstRows(Ascending({i \in DOMAIN chat_messages :
                         chat_messages[i].conversation_id = conversationId}),
            HistoryLimit)

\* chat for an agent none of whose gates blocks: the history query, the
\* completion call with the history, and the two messages stored under the
\* conversation id, which is the one supplied or a new uuid
\* (rag.ts 515-548, 562-577).
ChatInConversation(caller, conversationId) ==
  /\ Len(chat_messages) < 2 * MaxExchanges
  /\ AgentQuery(caller.agentId, caller.tenantId) # {}
  /\ ~GateSegment(agents[caller.agentId], <<"a">>).blocked
  /\ IF conversationId = "none"
       THEN ConversationIds \ UsedConversationIds # {}
       ELSE conversationId \in UsedConversationIds
  /\ LET convId == IF conversationId = "none"
                     THEN CHOOSE v \in ConversationIds \ UsedConversationIds : TRUE
                     ELSE conversationId
         history == IF conversationId = "none" THEN <<>>
                    ELSE HistoryQuery(conversationId)
     IN  /\ fnIn' = [tenantId |-> caller.tenantId, userId |-> caller.userId,
                     agentId |-> caller.agentId, conversationId |-> conversationId]
         /\ fnOut' = [history |-> history, conversationId |-> convId]
         /\ chat_messages' =
              chat_messages \o
                <<[tenant_id |-> caller.tenantId, user_id |-> caller.userId,
                   agent_id |-> caller.agentId, conversation_id |-> convId,
                   role |-> "user", content |-> <<"a">>],
                  [tenant_id |-> caller.tenantId, user_id |-> caller.userId,
                   agent_id |-> caller.agentId, conversation_id |-> convId,
                   role |-> "assistant", content |-> <<"response">>]>>
  /\ UNCHANGED <<storeVars, decision_logs, turns, ingestVars, pgOut>>

InitHistory ==
  /\ agents = HistoryAgents
  /\ collections = FixtureCollections
  /\ agent_collections = FixtureLinks
  /\ documents = <<>>
  /\ embeddings = <<>>
  /\ decision_logs = <<>>
  /\ chat_messages = <<>>
  /\ turns = <<>>
  /\ runs = <<>>
  /\ rq = None
  /\ dq = None
  /\ fnIn = None
  /\ fnOut = None
  /\ pgOut = None

NextHistory ==
  \E caller \in Callers, conversationId \in ConversationIds \cup {"none"} :
    ChatInConversation(caller, conversationId)

SpecHistory == InitHistory /\ [][NextHistory]_vars

\* C29: the history chat sends to the completion provider holds only
\* messages stored under the caller's own tenant and user, whatever
\* conversation id the caller supplies.
C29_HistoryOfCallerOnly ==
  fnOut # None =>
    \A p \in DOMAIN fnOut.history :
      /\ chat_messages[fnOut.history[p]].tenant_id = fnIn.tenantId
      /\ chat_messages[fnOut.history[p]].user_id = fnIn.userId

\* What the code guarantees: the history holds only messages stored under
\* the conversation id that was supplied.
ChatHistoryOfConversationOnly ==
  fnOut # None =>
    \A p \in DOMAIN fnOut.history :
      chat_messages[fnOut.history[p]].conversation_id = fnIn.conversationId

\* The rows of the supplied conversation that were stored before the turn
\* stored its own two.
StoredBefore ==
  Ascending({i \in 1..(Len(chat_messages) - 2) :
               chat_messages[i].conversation_id = fnIn.conversationId})

\* C30: with a conversation id supplied, the history sent is the most
\* recently stored messages of the conversation, in creation order: beyond
\* the history limit the oldest ones are left out.
C30_HistoryIsLatest ==
  (IF fnOut = None THEN FALSE ELSE fnIn.conversationId # "none") =>
    fnOut.history = LastRows(StoredBefore, HistoryLimit)

\* What the code guarantees: the history is the oldest messages of the
\* conversation, in creation order, up to the limit.
ChatHistoryIsOldest ==
  (IF fnOut = None THEN FALSE ELSE fnIn.conversationId # "none") =>
    fnOut.history = FirstRows(StoredBefore, HistoryLimit)

====
